---- MODULE Spec2Model ----
(***************************************************************************)
(* Depth mapping, continuity validation and trajectory defaults of the     *)
(* well-structure plotting pipeline (src/main_origin.py,                   *)
(* src/well_structure_plot.py).                                            *)
(*                                                                         *)
(* Arithmetic.  Real depths are integers of one depth unit.  Drawing       *)
(* values are counted in units of 1/Scale cm, so that round(x, 4) is a     *)
(* rounding to the nearest integer.  A value that is not written to a CSV  *)
(* file is an exact fraction <<n, d>> with d > 0; IEEE rounding of the     *)
(* float operations is not represented.                                    *)
(***************************************************************************)
EXTENDS Integers, Sequences, FiniteSets, TLC

VARIABLES
    extractor,          \* class of the extractor object that is running
    data,               \* the list the extractor read from well_data.json
    validation,         \* outcome of validate_continuity on data
    stratigraphy_raw,   \* the file stratigraphy_raw.csv
    layers,             \* map_raw_data's in-memory layers, before rounding
    stratigraphy_csv,   \* the file stratigraphy.csv (the mapping table)
    actual_depth_m,     \* argument of the last calculate_mapped_depth call
    mapped_depth_cm,    \* its outcome
    raised,             \* exception raised by the last operation, "" if none
    well_data,          \* wellType and totalDepth_m of well_data.json
    deviation_data,     \* the deviationData dict that validation patches
    deviation_raw,      \* the file deviationData_raw.csv
    deviation_csv,      \* the file deviationData.csv
    plotter,            \* the StratigraphyPlotter after process
    sections,           \* the other datasets of well_data.json
    pipeline            \* WellStructurePlotPipeline.run: position, step log, files

stratVars == <<stratigraphy_raw, layers, stratigraphy_csv>>
queryVars == <<actual_depth_m, mapped_depth_cm>>
devVars == <<well_data, deviation_data, deviation_raw, deviation_csv, plotter>>
pipeVars == <<sections, pipeline>>

vars == <<extractor, data, validation, stratigraphy_raw, layers,
          stratigraphy_csv, actual_depth_m, mapped_depth_cm, raised,
          well_data, deviation_data, deviation_raw, deviation_csv, plotter,
          sections, pipeline>>

----------------------------------------------------------------------------
(* Bounds of the model *)

MaxLayers == 3
DeepDepth == 50

DepthGrid == {0, 1, 3, DeepDepth}
QueryDepths == DepthGrid \cup {2, DeepDepth - 1, DeepDepth + 1, 2 * DeepDepth}

----------------------------------------------------------------------------
(* Program constants *)

Scale == 10000
total_mapped_thickness == 10 * Scale
min_thickness == (24 * Scale) \div 100

----------------------------------------------------------------------------
(* JSON values: a key may be absent, null, an empty string, the text      *)
(* 'null', another string, or a number.                                     *)

Absent   == [k |-> "absent", v |-> 0]
Null     == [k |-> "null", v |-> 0]
EmptyStr == [k |-> "empty", v |-> 0]
NullStr  == [k |-> "nullstr", v |-> 0]
Str      == [k |-> "str", v |-> 0]
Num(x)   == [k |-> "num", v |-> x]

IsNum(f) == f.k = "num"

----------------------------------------------------------------------------
(* Exact fractions *)

Abs(x) == IF x < 0 THEN -x ELSE x

Frac(n, d) == IF d < 0 THEN <<-n, -d>> ELSE <<n, d>>

\* floor(n / d) for d > 0
Floor(n, d) == n \div d

\* Python's round(x, 4) of x = n/d (d > 0) in units of 1/Scale cm:
\* round half to even.
Round4(n, d) ==
    LET q == Floor(n, d)
        r == n - q * d
    IN  IF 2 * r < d THEN q
        ELSE IF 2 * r > d THEN q + 1
        ELSE IF q % 2 = 0 THEN q ELSE q + 1

RECURSIVE GCD(_, _)
GCD(a, b) == IF b = 0 THEN a ELSE GCD(b, a % b)

Reduce(f) ==
    LET g == GCD(Abs(f[1]), f[2])
    IN  IF g = 0 THEN f ELSE <<f[1] \div g, f[2] \div g>>

FAdd(a, b) ==
    LET g == GCD(a[2], b[2])
    IN  Reduce(<<a[1] * (b[2] \div g) + b[1] * (a[2] \div g), (a[2] \div g) * b[2]>>)

\* comparisons, by the sign of the difference
Diff(a, b) == FAdd(a, <<-b[1], b[2]>>)
FLe(a, b) == Diff(a, b)[1] <= 0
FLt(a, b) == Diff(a, b)[1] < 0
FEq(a, b) == Diff(a, b)[1] = 0

----------------------------------------------------------------------------
(* StratigraphyExtractor *)

Layer(name, top, bottom) ==
    [name |-> name, topDepth_m |-> top, bottomDepth_m |-> bottom]

NoFile == [exists |-> FALSE, rows |-> <<>>]
File(rows) == [exists |-> TRUE, rows |-> rows]

\* sorted(list, key=lambda x: x['topDepth_m']): a stable sort.
RECURSIVE InsertByTop(_, _)
InsertByTop(x, s) ==
    IF s = <<>> THEN <<x>>
    ELSE IF x.topDepth_m.v < s[1].topDepth_m.v THEN <<x>> \o s
    ELSE <<s[1]>> \o InsertByTop(x, Tail(s))

RECURSIVE SortedByTop(_)
SortedByTop(s) ==
    IF s = <<>> THEN <<>>
    ELSE InsertByTop(s[Len(s)], SortedByTop(SubSeq(s, 1, Len(s) - 1)))

\* The sort key raises KeyError when an item has no topDepth_m.
SortRaises(s) == \E i \in 1..Len(s) : s[i].topDepth_m = Absent

RECURSIVE SelectRows(_)
SelectRows(s) ==
    IF s = <<>> THEN <<>>
    ELSE LET layer == s[1]
             keep == /\ layer.name.k = "str"
                     /\ IsNum(layer.topDepth_m)
                     /\ IsNum(layer.bottomDepth_m)
             row == [name |-> "L",
                     topDepth_m |-> layer.topDepth_m.v,
                     bottomDepth_m |-> layer.bottomDepth_m.v]
         IN  (IF keep THEN <<row>> ELSE <<>>) \o SelectRows(Tail(s))

\* export_raw_data: the rows of stratigraphy_raw.csv.
StratExportRows(stratigraphy) == SelectRows(SortedByTop(stratigraphy))

RECURSIVE SumThickness(_)
SumThickness(rows) ==
    IF rows = <<>> THEN 0
    ELSE (rows[1].bottomDepth_m - rows[1].topDepth_m) + SumThickness(Tail(rows))

\* proportion * total_mapped_thickness of one layer
Share(row, total_actual_thickness) ==
    Reduce(Frac((row.bottomDepth_m - row.topDepth_m) * total_mapped_thickness,
                total_actual_thickness))

\* the minimum-thickness adjustment
MappedThickness(share) ==
    IF FLt(share, <<min_thickness, 1>>) THEN <<min_thickness, 1>> ELSE share

\* the running sum that assigns mapped_top_cm and mapped_bottom_cm
RECURSIVE Accumulate(_, _, _)
Accumulate(rows, total_actual_thickness, mapped_top) ==
    IF rows = <<>> THEN <<>>
    ELSE LET row == rows[1]
             share == Share(row, total_actual_thickness)
             thickness == MappedThickness(share)
             bottom == FAdd(mapped_top, thickness)
             layer == [name |-> row.name,
                       topDepth_m |-> row.topDepth_m,
                       bottomDepth_m |-> row.bottomDepth_m,
                       actual_thickness_m |-> row.bottomDepth_m - row.topDepth_m,
                       share |-> share,
                       mapped_thickness_cm |-> thickness,
                       mapped_top_cm |-> mapped_top,
                       mapped_bottom_cm |-> bottom]
         IN  <<layer>> \o Accumulate(Tail(rows), total_actual_thickness, bottom)

\* the running sum started at the minimum thickness
MappedLayersFromMinimum(rows) ==
    Accumulate(rows, SumThickness(rows), <<min_thickness, 1>>)

\* map_raw_data's layers after the three loops
MappedLayers(rows) == Accumulate(rows, SumThickness(rows), <<0, 1>>)

\* a row of stratigraphy.csv as load_stratigraphy_mapping reads it back
CsvRow(layer) ==
    [topDepth_m |-> layer.topDepth_m,
     bottomDepth_m |-> layer.bottomDepth_m,
     mapped_thickness_cm |-> Round4(layer.mapped_thickness_cm[1], layer.mapped_thickness_cm[2]),
     mapped_top_cm |-> Round4(layer.mapped_top_cm[1], layer.mapped_top_cm[2]),
     mapped_bottom_cm |-> Round4(layer.mapped_bottom_cm[1], layer.mapped_bottom_cm[2])]

CsvRows(ls) == [i \in 1..Len(ls) |-> CsvRow(ls[i])]

----------------------------------------------------------------------------
(* validate_continuity of StratigraphyExtractor and DrillingFluidExtractor *)

NotRun == [k |-> "none", why |-> "", index |-> 0, field |-> ""]
Passed == [k |-> "True", why |-> "", index |-> 0, field |-> ""]
Failed(e, why, i, field) == [k |-> e, why |-> why, index |-> i, field |-> field]

\* only a gap between the two intervals is reported
DiscontinuousGapOnly(current, next) ==
    current.bottomDepth_m.v < next.topDepth_m.v

\* current_bottom != next_top
Discontinuous(current, next) ==
    current.bottomDepth_m.v # next.topDepth_m.v

\* an interval of no thickness is let through
DegenerateStrict(current) ==
    current.topDepth_m.v > current.bottomDepth_m.v

\* topDepth_m >= bottomDepth_m
Degenerate(current) ==
    current.topDepth_m.v >= current.bottomDepth_m.v

StratMissingField(layer) ==
    IF layer.name = Absent THEN "name"
    ELSE IF layer.topDepth_m = Absent THEN "topDepth_m"
    ELSE IF layer.bottomDepth_m = Absent THEN "bottomDepth_m"
    ELSE ""

RECURSIVE StratCheckFrom(_, _)
StratCheckFrom(sorted_stratigraphy, i) ==
    IF i > Len(sorted_stratigraphy) THEN Passed
    ELSE LET current_layer == sorted_stratigraphy[i]
         IN  IF StratMissingField(current_layer) # ""
             THEN Failed("ValueError", "missing", i, StratMissingField(current_layer))
             ELSE IF Degenerate(current_layer)
             THEN Failed("ValueError", "order", i, "")
             \* the continuity message and the progress line both read
             \* next_layer['name'] before the next layer's fields are checked
             ELSE IF /\ i < Len(sorted_stratigraphy)
                     /\ sorted_stratigraphy[i + 1].name = Absent
             THEN Failed("KeyError", "message", i, "name")
             ELSE IF /\ i < Len(sorted_stratigraphy)
                     /\ Discontinuous(current_layer, sorted_stratigraphy[i + 1])
             THEN Failed("ValueError", "continuity", i, "")
             ELSE StratCheckFrom(sorted_stratigraphy, i + 1)

StratValidate(stratigraphy) ==
    IF stratigraphy = <<>> THEN Failed("ValueError", "empty", 0, "")
    ELSE IF SortRaises(stratigraphy) THEN Failed("KeyError", "sort", 0, "topDepth_m")
    ELSE StratCheckFrom(SortedByTop(stratigraphy), 1)

Section(top, bottom, pore, window) ==
    [topDepth_m |-> top, bottomDepth_m |-> bottom,
     porePressure_gcm3 |-> pore, pressureWindow_gcm3 |-> window]

FluidMissingField(section) ==
    IF section.topDepth_m = Absent THEN "topDepth_m"
    ELSE IF section.bottomDepth_m = Absent THEN "bottomDepth_m"
    ELSE IF section.porePressure_gcm3 = Absent THEN "porePressure_gcm3"
    ELSE IF section.pressureWindow_gcm3 = "absent" THEN "pressureWindow_gcm3"
    ELSE ""

RECURSIVE FluidCheckFrom(_, _)
FluidCheckFrom(sorted_data, i) ==
    IF i > Len(sorted_data) THEN Passed
    ELSE LET current_section == sorted_data[i]
         IN  IF FluidMissingField(current_section) # ""
             THEN Failed("ValueError", "missing", i, FluidMissingField(current_section))
             ELSE IF current_section.pressureWindow_gcm3 # "min-max"
             THEN Failed("ValueError", "window", i, "")
             ELSE IF Degenerate(current_section)
             THEN Failed("ValueError", "order", i, "")
             ELSE IF /\ i < Len(sorted_data)
                     /\ Discontinuous(current_section, sorted_data[i + 1])
             THEN Failed("ValueError", "continuity", i, "")
             ELSE FluidCheckFrom(sorted_data, i + 1)

FluidValidate(drilling_fluid_data) ==
    IF drilling_fluid_data = <<>> THEN Failed("ValueError", "empty", 0, "")
    ELSE IF SortRaises(drilling_fluid_data) THEN Failed("KeyError", "sort", 0, "topDepth_m")
    ELSE FluidCheckFrom(SortedByTop(drilling_fluid_data), 1)

----------------------------------------------------------------------------
(* DepthMappingMixin *)

NoValue == [k |-> "none", f |-> <<0, 1>>]
Value(f) == [k |-> "value", f |-> f]
Raise(e) == [k |-> e, f |-> <<0, 1>>]

\* the mapped thickness taken to be the mapped bottom
InterpolateNoSubtract(actual_depth, layer) ==
    LET layer_thickness_m == layer.bottomDepth_m - layer.topDepth_m
        layer_mapped_thickness_cm == layer.mapped_bottom_cm
    IN  IF layer_thickness_m = 0
        THEN <<layer.mapped_top_cm, 1>>
        ELSE Reduce(<<layer.mapped_top_cm * layer_thickness_m
                        + (actual_depth - layer.topDepth_m) * layer_mapped_thickness_cm,
                      layer_thickness_m>>)

\* the interpolation inside the first layer that contains the depth
Interpolate(actual_depth, layer) ==
    LET layer_thickness_m == layer.bottomDepth_m - layer.topDepth_m
        layer_mapped_thickness_cm == layer.mapped_bottom_cm - layer.mapped_top_cm
    IN  IF layer_thickness_m = 0
        THEN <<layer.mapped_top_cm, 1>>
        ELSE Reduce(<<layer.mapped_top_cm * layer_thickness_m
                        + (actual_depth - layer.topDepth_m) * layer_mapped_thickness_cm,
                      layer_thickness_m>>)

\* below the table the deepest layer's own slope is continued
OutOfRangeLocalSlope(actual_depth, stratigraphy_mapping) ==
    IF stratigraphy_mapping = <<>> THEN Raise("IndexError")
    ELSE IF actual_depth < stratigraphy_mapping[1].topDepth_m
    THEN Value(<<stratigraphy_mapping[1].mapped_top_cm, 1>>)
    ELSE LET deepest_layer == stratigraphy_mapping[Len(stratigraphy_mapping)]
             thickness == deepest_layer.bottomDepth_m - deepest_layer.topDepth_m
         IN  IF thickness = 0 THEN Raise("ZeroDivisionError")
             ELSE Value(Reduce(Frac(
                    deepest_layer.mapped_top_cm * thickness
                      + (actual_depth - deepest_layer.topDepth_m)
                          * (deepest_layer.mapped_bottom_cm - deepest_layer.mapped_top_cm),
                    thickness)))

\* the branch taken when no layer contains the depth
OutOfRange(actual_depth, stratigraphy_mapping) ==
    IF stratigraphy_mapping = <<>> THEN Raise("IndexError")
    ELSE IF actual_depth < stratigraphy_mapping[1].topDepth_m
    THEN Value(<<stratigraphy_mapping[1].mapped_top_cm, 1>>)
    ELSE LET deepest_layer == stratigraphy_mapping[Len(stratigraphy_mapping)]
         IN  IF deepest_layer.bottomDepth_m = 0 THEN Raise("ZeroDivisionError")
             ELSE Value(Reduce(Frac(deepest_layer.mapped_bottom_cm * actual_depth,
                                    deepest_layer.bottomDepth_m)))

RECURSIVE SearchLayers(_, _, _)
SearchLayers(actual_depth, stratigraphy_mapping, i) ==
    IF i > Len(stratigraphy_mapping)
    THEN OutOfRange(actual_depth, stratigraphy_mapping)
    ELSE IF /\ stratigraphy_mapping[i].topDepth_m <= actual_depth
            /\ actual_depth <= stratigraphy_mapping[i].bottomDepth_m
    THEN Value(Interpolate(actual_depth, stratigraphy_mapping[i]))
    ELSE SearchLayers(actual_depth, stratigraphy_mapping, i + 1)

calculate_mapped_depth(actual_depth, stratigraphy_mapping) ==
    SearchLayers(actual_depth, stratigraphy_mapping, 1)

----------------------------------------------------------------------------
(* Strings of well_data.json, as sequences of characters *)

UpperToLower ==
    [c \in {"S", "W", "D", "H", "V"} |->
        CASE c = "S" -> "s"
          [] c = "W" -> "w"
          [] c = "D" -> "d"
          [] c = "H" -> "h"
          [] c = "V" -> "v"]

\* str.lower()
Lower(str) ==
    [i \in 1..Len(str) |->
        IF str[i] \in DOMAIN UpperToLower THEN UpperToLower[str[i]] ELSE str[i]]

RECURSIVE LStrip(_)
LStrip(str) ==
    IF str # <<>> /\ str[1] = " " THEN LStrip(Tail(str)) ELSE str

RECURSIVE RStrip(_)
RStrip(str) ==
    IF str # <<>> /\ str[Len(str)] = " "
    THEN RStrip(SubSeq(str, 1, Len(str) - 1))
    ELSE str

\* str.strip()
Strip(str) == RStrip(LStrip(str))

straight_well == <<"s", "t", "r", "a", "i", "g", "h", "t", " ", "w", "e", "l", "l">>
horizontal_well == <<"h", "o", "r", "i", "z", "o", "n", "t", "a", "l", " ", "w", "e", "l", "l">>
deviated_well == <<"d", "e", "v", "i", "a", "t", "e", "d", " ", "w", "e", "l", "l">>

----------------------------------------------------------------------------
(* Fractions with signs, for the trajectory arithmetic *)

F(n) == <<n, 1>>
FNeg(a) == <<-a[1], a[2]>>
FSub(a, b) == Diff(a, b)
FAbs(a) == <<Abs(a[1]), a[2]>>
FMul(a, b) ==
    LET g1 == GCD(Abs(a[1]), b[2])
        g2 == GCD(Abs(b[1]), a[2])
    IN  Reduce(<<(a[1] \div g1) * (b[1] \div g2), (a[2] \div g2) * (b[2] \div g1)>>)
\* a / b for b # 0
FDiv(a, b) == FMul(a, Frac(b[2], b[1]))

\* math.radians, with 63/20 for pi
Radians(deg) == FMul(deg, <<7, 400>>)

\* math.sin of an angle given in degrees, at the angles of the model,
\* to the precision that keeps sin(x) < x for x > 0
Sin(deg) ==
    CASE deg = <<0, 1>> -> <<0, 1>>
      [] deg = <<1, 2>> -> <<87, 10000>>
      [] deg = <<1, 1>> -> <<17, 1000>>
      [] deg = <<2, 1>> -> <<17, 500>>
      [] deg = <<30, 1>> -> <<1, 2>>
      [] deg = <<45, 1>> -> <<7, 10>>
      [] deg = <<89, 1>> -> <<999, 1000>>
      [] deg = <<90, 1>> -> <<1, 1>>
      [] deg = <<100, 1>> -> <<197, 200>>
      [] deg = <<-5, 1>> -> <<-87, 1000>>

----------------------------------------------------------------------------
(* DeviationDataExtractor.validate_deviation_data *)

\* values of the deviationData dict: numbers are fractions
NoKey    == [k |-> "absent", v |-> <<0, 1>>]
JNull    == [k |-> "null", v |-> <<0, 1>>]
JEmpty   == [k |-> "empty", v |-> <<0, 1>>]
JNullStr == [k |-> "nullstr", v |-> <<0, 1>>]
Val(f)   == [k |-> "num", v |-> f]

\* value is None or value == '' or str(value).lower() == 'null'
\* (dict.get gives None for an absent key)
IsMissing(x) == x.k \in {"absent", "null", "empty", "nullstr"}

\* StratigraphyPlotter.__init__: nothing detected, the default width, no
\* angle drawn
NoPlotter ==
    [k |-> "none", well_type |-> <<>>, data |-> <<>>,
     trajectory_width_cm |-> <<6, 1>>, is_horizontal_well |-> FALSE,
     deviation_angle_deg |-> [k |-> "absent", v |-> <<0, 1>>], stage |-> "new"]
NoSections == [d \in {"fluid", "deviation", "hole", "casing"} |-> [k |-> "none", rows |-> <<>>]]
NoPipeline ==
    [pc |-> "idle", log |-> <<>>, files |-> {}, exit |-> 0, report |-> FALSE]
NoDeviation ==
    [kickoffPoint_m |-> NoKey, deviationAngle_deg |-> NoKey,
     targetPointA_m |-> NoKey, targetPointA_verticalDepth_m |-> NoKey,
     targetPointB_m |-> NoKey, DistanceAB_m |-> NoKey,
     REAL_kickoffPoint_m |-> NoKey]
NoWell ==
    [wellType |-> [k |-> "absent", s |-> <<>>], totalDepth_m |-> NoKey,
     deviationData |-> NoDeviation]

\* well_data.get('wellType', '').strip().lower(); None has no strip()
WellTypeReadable(well) == well.wellType.k # "null"
NormalizedWellType(well) ==
    IF well.wellType.k = "str" THEN Lower(Strip(well.wellType.s)) ELSE <<>>

\* the well type of the second read, '' when the read fails
WellTypeOrEmpty(well) ==
    IF WellTypeReadable(well) THEN NormalizedWellType(well) ELSE <<>>

\* well_data.get('totalDepth_m', 0)
TotalDepth(well) ==
    IF well.totalDepth_m.k = "absent" THEN Val(F(0)) ELSE well.totalDepth_m

StraightDefaults(total_depth) ==
    [kickoffPoint_m |-> total_depth, deviationAngle_deg |-> Val(F(0)),
     targetPointA_m |-> total_depth, targetPointA_verticalDepth_m |-> total_depth,
     targetPointB_m |-> total_depth, DistanceAB_m |-> Val(F(0)),
     REAL_kickoffPoint_m |-> total_depth]

IsStraightNoStrip(well) ==
    WellTypeReadable(well) /\ well.wellType.s = straight_well

\* the straight-well test at the head of validate_deviation_data
IsStraight(well) ==
    WellTypeReadable(well) /\ NormalizedWellType(well) = straight_well

\* the total depth tried before REAL_kickoffPoint_m
KickoffFallbackDepthFirst(dd, well) ==
    IF ~IsMissing(dd.kickoffPoint_m) THEN dd.kickoffPoint_m
    ELSE IF TotalDepth(well).k = "num" /\ FLt(F(0), TotalDepth(well).v)
    THEN TotalDepth(well)
    ELSE IF dd.REAL_kickoffPoint_m.k # "absent" THEN dd.REAL_kickoffPoint_m
    ELSE Val(F(0))

\* the fallbacks for a missing kickoffPoint_m
KickoffFallback(dd, well) ==
    IF ~IsMissing(dd.kickoffPoint_m) THEN dd.kickoffPoint_m
    ELSE IF dd.REAL_kickoffPoint_m.k # "absent" THEN dd.REAL_kickoffPoint_m
    ELSE IF TotalDepth(well).k = "num" /\ FLt(F(0), TotalDepth(well).v)
    THEN TotalDepth(well)
    ELSE Val(F(0))

DefaultAngleAbsentOnly(angle, well_type) ==
    IF angle.k # "absent" THEN angle
    ELSE IF well_type = horizontal_well THEN Val(F(90))
    ELSE IF well_type = deviated_well THEN Val(F(45))
    ELSE Val(F(0))

\* the default for a missing deviationAngle_deg
DefaultAngle(angle, well_type) ==
    IF ~IsMissing(angle) THEN angle
    ELSE IF well_type = horizontal_well THEN Val(F(90))
    ELSE IF well_type = deviated_well THEN Val(F(45))
    ELSE Val(F(0))

LowAngleOverrideBelowOne(angle, well_type) ==
    IF well_type = deviated_well /\ angle.k # "null" /\ FLt(angle.v, F(1))
    THEN Val(F(30))
    ELSE angle

\* the deviated-well override of an angle of at most one degree
LowAngleOverride(angle, well_type) ==
    IF well_type = deviated_well /\ angle.k # "null" /\ FLe(angle.v, F(1))
    THEN Val(F(30))
    ELSE angle

ResolvedAngle(angle, well_type) ==
    LowAngleOverride(DefaultAngle(angle, well_type), well_type)

ResolveTripleSwapped(dd, kickoff_point, angle) ==
    LET target_point_a == dd.targetPointA_m
        target_point_a_vertical == dd.targetPointA_verticalDepth_m
        has_kickoff == ~IsMissing(kickoff_point)
        has_a == ~IsMissing(target_point_a)
        has_vertical == ~IsMissing(target_point_a_vertical)
        theta == Radians(angle.v)
        sin_theta == Sin(angle.v)
    IN  IF has_kickoff /\ has_a /\ ~has_vertical /\ theta # F(0) /\ sin_theta # F(0)
        THEN [dd EXCEPT !.targetPointA_verticalDepth_m =
                Val(FAdd(FMul(FDiv(FSub(target_point_a.v, kickoff_point.v), sin_theta),
                              theta),
                         kickoff_point.v))]
        ELSE IF has_kickoff /\ has_vertical /\ ~has_a /\ theta # F(0) /\ sin_theta # F(0)
        THEN [dd EXCEPT !.targetPointA_m =
                Val(FAdd(FMul(FDiv(FSub(target_point_a_vertical.v, kickoff_point.v),
                                   theta),
                              sin_theta),
                         kickoff_point.v))]
        ELSE dd

\* the build-arc equations; kickoff_point is the local variable of line 616
ResolveTriple(dd, kickoff_point, angle) ==
    LET target_point_a == dd.targetPointA_m
        target_point_a_vertical == dd.targetPointA_verticalDepth_m
        has_kickoff == ~IsMissing(kickoff_point)
        has_a == ~IsMissing(target_point_a)
        has_vertical == ~IsMissing(target_point_a_vertical)
        theta == Radians(angle.v)
        sin_theta == Sin(angle.v)
    IN  IF has_kickoff /\ has_a /\ ~has_vertical
        THEN IF theta # F(0) /\ sin_theta # F(0)
             THEN [dd EXCEPT !.targetPointA_verticalDepth_m =
                     Val(FAdd(FMul(FDiv(FSub(target_point_a.v, kickoff_point.v), theta),
                                   sin_theta),
                              kickoff_point.v))]
             ELSE dd
        ELSE IF has_kickoff /\ has_vertical /\ ~has_a
        THEN IF theta # F(0) /\ sin_theta # F(0)
             THEN [dd EXCEPT !.targetPointA_m =
                     Val(FAdd(FMul(FDiv(FSub(target_point_a_vertical.v, kickoff_point.v),
                                        sin_theta),
                                   theta),
                              kickoff_point.v))]
             ELSE dd
        ELSE IF has_a /\ has_vertical /\ ~has_kickoff
        THEN IF sin_theta # theta /\ sin_theta # F(0)
             THEN [dd EXCEPT !.kickoffPoint_m =
                     Val(FDiv(FSub(FMul(target_point_a.v, sin_theta),
                                   FMul(target_point_a_vertical.v, theta)),
                              FSub(sin_theta, theta)))]
             ELSE dd
        ELSE dd

Outcome(k, why, dd) == [k |-> k, why |-> why, data |-> dd]

ToleranceCentimetre == <<1, 100>>

\* the tolerance of the A / B / DistanceAB comparison, in metres
Tolerance == <<1, 1000>>

ResolveABDoubled(dd, kickoff_point) ==
    LET target_point_a == dd.targetPointA_m
        target_point_b == dd.targetPointB_m
        distance_ab == dd.DistanceAB_m
        has_a == ~IsMissing(target_point_a)
        has_b == ~IsMissing(target_point_b)
        has_ab == ~IsMissing(distance_ab)
        count == (IF has_a THEN 1 ELSE 0) + (IF has_b THEN 1 ELSE 0)
                    + (IF has_ab THEN 1 ELSE 0)
        calculated_ab == FAbs(FSub(target_point_b.v, target_point_a.v))
        inconsistent ==
            has_a /\ has_b /\ has_ab
                /\ FLt(Tolerance, FAbs(FSub(calculated_ab, distance_ab.v)))
        resolved ==
            IF has_a /\ has_b
            THEN IF has_ab THEN dd ELSE [dd EXCEPT !.DistanceAB_m = Val(calculated_ab)]
            ELSE IF has_a /\ has_ab
            THEN [dd EXCEPT !.targetPointB_m = Val(FAdd(target_point_a.v, FAdd(distance_ab.v, distance_ab.v)))]
            ELSE [dd EXCEPT !.targetPointA_m = Val(FSub(target_point_b.v, distance_ab.v))]
    IN  IF count < 2 THEN Outcome("ValueError", "two of A, B, AB", dd)
        ELSE IF inconsistent THEN Outcome("ValueError", "inconsistent AB", dd)
        ELSE IF kickoff_point.k # "num" THEN Outcome("TypeError", "order", resolved)
        ELSE IF ~(/\ FLt(kickoff_point.v, resolved.targetPointA_m.v)
                  /\ FLe(resolved.targetPointA_m.v, resolved.targetPointB_m.v))
        THEN Outcome("ValueError", "order", resolved)
        ELSE Outcome("True", "", resolved)

\* the A / B / DistanceAB relation and the final ordering check
ResolveAB(dd, kickoff_point) ==
    LET target_point_a == dd.targetPointA_m
        target_point_b == dd.targetPointB_m
        distance_ab == dd.DistanceAB_m
        has_a == ~IsMissing(target_point_a)
        has_b == ~IsMissing(target_point_b)
        has_ab == ~IsMissing(distance_ab)
        count == (IF has_a THEN 1 ELSE 0) + (IF has_b THEN 1 ELSE 0)
                    + (IF has_ab THEN 1 ELSE 0)
        calculated_ab == FAbs(FSub(target_point_b.v, target_point_a.v))
        inconsistent ==
            has_a /\ has_b /\ has_ab
                /\ FLt(Tolerance, FAbs(FSub(calculated_ab, distance_ab.v)))
        resolved ==
            IF has_a /\ has_b
            THEN IF has_ab THEN dd ELSE [dd EXCEPT !.DistanceAB_m = Val(calculated_ab)]
            ELSE IF has_a /\ has_ab
            THEN [dd EXCEPT !.targetPointB_m = Val(FAdd(target_point_a.v, distance_ab.v))]
            ELSE [dd EXCEPT !.targetPointA_m = Val(FSub(target_point_b.v, distance_ab.v))]
    IN  IF count < 2 THEN Outcome("ValueError", "two of A, B, AB", dd)
        ELSE IF inconsistent THEN Outcome("ValueError", "inconsistent AB", dd)
        ELSE IF kickoff_point.k # "num" THEN Outcome("TypeError", "order", resolved)
        ELSE IF ~(/\ FLt(kickoff_point.v, resolved.targetPointA_m.v)
                  /\ FLe(resolved.targetPointA_m.v, resolved.targetPointB_m.v))
        THEN Outcome("ValueError", "order", resolved)
        ELSE Outcome("True", "", resolved)

ValidateDirectionalAnyAngle(dd, well) ==
    LET kickoff_point == KickoffFallback(dd, well)
        with_kickoff == [dd EXCEPT !.kickoffPoint_m = kickoff_point]
        well_type == WellTypeOrEmpty(well)
        deviation_angle == ResolvedAngle(dd.deviationAngle_deg, well_type)
        with_angle == [with_kickoff EXCEPT !.deviationAngle_deg = deviation_angle]
    IN  ResolveAB(ResolveTriple(with_angle, kickoff_point, deviation_angle),
                  kickoff_point)

\* validate_deviation_data past the straight-well test
ValidateDirectional(dd, well) ==
    LET kickoff_point == KickoffFallback(dd, well)
        with_kickoff == [dd EXCEPT !.kickoffPoint_m = kickoff_point]
        well_type == WellTypeOrEmpty(well)
        deviation_angle == ResolvedAngle(dd.deviationAngle_deg, well_type)
        with_angle == [with_kickoff EXCEPT !.deviationAngle_deg = deviation_angle]
    IN  IF ~(FLe(F(0), deviation_angle.v) /\ FLe(deviation_angle.v, F(90)))
        THEN Outcome("ValueError", "angle range", with_angle)
        ELSE ResolveAB(ResolveTriple(with_angle, kickoff_point, deviation_angle),
                       kickoff_point)

validate_deviation_data(dd, well) ==
    IF IsStraight(well)
    THEN Outcome("True", "straight", StraightDefaults(TotalDepth(well)))
    ELSE ValidateDirectional(dd, well)

----------------------------------------------------------------------------
(* StratigraphyPlotter.detect_well_type *)

RequiredPresent(dd) ==
    /\ dd.kickoffPoint_m.k # "absent"
    /\ dd.deviationAngle_deg.k # "absent"
    /\ dd.targetPointA_m.k # "absent"
    /\ dd.targetPointB_m.k # "absent"

\* the returned type and the plotter's patched copy of deviationData;
\* a null wellType has no strip() and the exception propagates
detect_well_type(well, dd) ==
    LET well_type == NormalizedWellType(well)
        patched == [dd EXCEPT !.kickoffPoint_m = KickoffFallback(dd, well)]
    IN  IF ~WellTypeReadable(well)
        THEN [k |-> "AttributeError", well_type |-> <<>>, data |-> dd]
        ELSE IF well_type = <<>>
        THEN [k |-> "value", well_type |-> straight_well, data |-> dd]
        ELSE IF well_type \in {horizontal_well, deviated_well}
        THEN IF RequiredPresent(patched)
             THEN [k |-> "value", well_type |-> well_type, data |-> patched]
             ELSE [k |-> "value", well_type |-> straight_well, data |-> patched]
        ELSE IF well_type = straight_well
        THEN [k |-> "value", well_type |-> well_type,
              data |-> StraightDefaults(TotalDepth(well))]
        ELSE [k |-> "value", well_type |-> straight_well, data |-> dd]

\* process: the plotter after load_well_data and detect_well_type
Detected(well, dd) ==
    LET r == detect_well_type(well, dd)
    IN  [NoPlotter EXCEPT !.k = r.k, !.well_type = r.well_type, !.data = r.data,
                          !.stage = IF r.k = "value" THEN "detected" ELSE "failed"]

\* the width and the flag for a deviated well read as a horizontal one
AdjustedKeepDeviated(p, csv) ==
    IF p.well_type = horizontal_well
    THEN [p EXCEPT !.trajectory_width_cm = F(12), !.is_horizontal_well = TRUE,
                   !.stage = "adjusted"]
    ELSE IF p.well_type = deviated_well
    THEN [p EXCEPT !.trajectory_width_cm = F(9), !.is_horizontal_well = FALSE,
                   !.stage = "adjusted"]
    ELSE [p EXCEPT !.trajectory_width_cm = F(6), !.is_horizontal_well = FALSE,
                   !.stage = "adjusted"]

\* adjust_trajectory_width: a deviated well whose angle in deviationData.csv
\* is 89 degrees or more is treated as horizontal; a file that cannot be read
\* leaves it deviated
Adjusted(p, csv) ==
    LET treat_as_horizontal ==
            /\ p.well_type = deviated_well
            /\ csv.exists
            /\ FLe(F(89), csv.rows.deviationAngle_deg.final.v)
    IN  IF p.well_type = horizontal_well \/ treat_as_horizontal
        THEN [p EXCEPT !.trajectory_width_cm = F(12), !.is_horizontal_well = TRUE,
                       !.stage = "adjusted"]
        ELSE IF p.well_type = deviated_well
        THEN [p EXCEPT !.trajectory_width_cm = F(9), !.is_horizontal_well = FALSE,
                       !.stage = "adjusted"]
        ELSE [p EXCEPT !.trajectory_width_cm = F(6), !.is_horizontal_well = FALSE,
                       !.stage = "adjusted"]

\* load_deviation_data and draw_trajectory_design: the angle the geometry is
\* drawn with; a well that is not straight needs deviationData.csv
Drawn(p, csv) ==
    IF p.well_type # straight_well /\ ~csv.exists
    THEN [p EXCEPT !.stage = "failed"]
    ELSE LET deviation_angle_deg ==
                 IF p.well_type = straight_well THEN Val(F(0))
                 ELSE csv.rows.deviationAngle_deg.final
         IN  [p EXCEPT !.deviation_angle_deg =
                           IF p.is_horizontal_well THEN Val(F(90))
                           ELSE deviation_angle_deg,
                       !.stage = "drawn"]

\* process: an exception of detect_well_type ends it; otherwise the width is
\* adjusted, the five files are loaded and the trajectory is drawn. loaded
\* tells whether the files of the other four datasets can be read
Process(well, csv, loaded) ==
    LET detected == Detected(well, well.deviationData)
    IN  IF detected.k # "value" THEN detected
        ELSE IF ~loaded THEN [Adjusted(detected, csv) EXCEPT !.stage = "failed"]
        ELSE Drawn(Adjusted(detected, csv), csv)

----------------------------------------------------------------------------
(* DeviationDataExtractor.export_raw_data and map_raw_data *)

\* is_valid_value
IsValidValue(x) == x.k = "num"

\* the rows of deviationData_raw.csv, one per valid parameter
DevExportRows(dd) ==
    [f \in DOMAIN dd |-> IF IsValidValue(dd[f]) THEN dd[f] ELSE NoKey]

\* the angle default of map_raw_data; a failed read of the well type gives 0
MapDefaultAngle(angle, well) ==
    IF angle.k = "num" THEN angle
    ELSE IF ~WellTypeReadable(well) THEN Val(F(0))
    ELSE IF NormalizedWellType(well) = horizontal_well THEN Val(F(90))
    ELSE IF NormalizedWellType(well) = deviated_well THEN Val(F(45))
    ELSE Val(F(0))

\* the deviated-well override of map_raw_data; skipped when the read fails
MapLowAngleOverride(angle, well) ==
    IF /\ WellTypeReadable(well)
       /\ NormalizedWellType(well) = deviated_well
       /\ FLe(angle.v, F(1))
    THEN Val(F(30))
    ELSE angle

MapResolvedAngle(angle, well) == MapLowAngleOverride(MapDefaultAngle(angle, well), well)

\* direct mapping of one raw value; None when the row is absent
DirectMap(x, stratigraphy_mapping) ==
    IF x.k = "num"
    THEN calculate_mapped_depth(x.v[1], stratigraphy_mapping)
    ELSE NoValue

Rounded(f) == Val(F(Round4(f[1], f[2])))

\* a row whose value came from the raw file: mapped directly
DirectRow(x, mapped) ==
    [value |-> x, direct |-> Rounded(mapped.f), final |-> Rounded(mapped.f)]

\* a row absent from the raw file: the value the geometry gave, if any
DerivedRow(mapped) ==
    [value |-> NoKey, direct |-> NoKey,
     final |-> IF mapped.k = "value" THEN Rounded(mapped.f) ELSE NoKey]

NullRow == [value |-> NoKey, direct |-> NoKey, final |-> NoKey]

\* the second pass left out: only the direct mappings
MappedTripleDirectOnly(kickoff_mapped, target_a_mapped, target_a_vertical_mapped, angle) ==
    [kickoff |-> kickoff_mapped, target_a |-> target_a_mapped,
     target_a_vertical |-> target_a_vertical_mapped]

\* geometric relations 1 to 3 on the mapped values
MappedTriple(kickoff_mapped, target_a_mapped, target_a_vertical_mapped, angle) ==
    LET theta == Radians(angle.v)
        sin_theta == Sin(angle.v)
        kickoff2 ==
            IF /\ kickoff_mapped.k = "none"
               /\ target_a_mapped.k = "value"
               /\ target_a_vertical_mapped.k = "value"
               /\ sin_theta # theta /\ sin_theta # F(0)
            THEN Value(FDiv(FSub(FMul(target_a_mapped.f, sin_theta),
                                 FMul(target_a_vertical_mapped.f, theta)),
                            FSub(sin_theta, theta)))
            ELSE kickoff_mapped
        target_a2 ==
            IF /\ target_a_mapped.k = "none"
               /\ kickoff2.k = "value"
               /\ target_a_vertical_mapped.k = "value"
               /\ sin_theta # F(0)
            THEN Value(FAdd(FMul(FDiv(FSub(target_a_vertical_mapped.f, kickoff2.f),
                                      sin_theta),
                                 theta),
                            kickoff2.f))
            ELSE target_a_mapped
        vertical2 ==
            IF /\ target_a_vertical_mapped.k = "none"
               /\ kickoff2.k = "value"
               /\ target_a2.k = "value"
               /\ theta # F(0)
            THEN Value(FAdd(FMul(FDiv(FSub(target_a2.f, kickoff2.f), theta), sin_theta),
                            kickoff2.f))
            ELSE target_a_vertical_mapped
    IN  [kickoff |-> kickoff2, target_a |-> target_a2, target_a_vertical |-> vertical2]

\* the AB-distance row
DistanceRow(raw, target_a_mapped, target_b_mapped) ==
    LET ab_value_m == raw.DistanceAB_m
        use_b == target_b_mapped.k = "value" /\ raw.targetPointB_m.k = "num"
        use_a == target_a_mapped.k = "value" /\ raw.targetPointA_m.k = "num"
        ratio_of == IF use_b THEN raw.targetPointB_m.v ELSE raw.targetPointA_m.v
        ratio_mapped == IF use_b THEN target_b_mapped.f ELSE target_a_mapped.f
        scaled == FMul(ab_value_m.v, FDiv(ratio_mapped, ratio_of))
    IN  IF ab_value_m.k = "num"
        THEN IF use_b \/ use_a
             THEN IF ratio_of = F(0)
                  THEN [k |-> "ZeroDivisionError", row |-> NullRow]
                  ELSE [k |-> "", row |-> [value |-> ab_value_m,
                                           direct |-> Rounded(scaled),
                                           final |-> Rounded(scaled)]]
             ELSE [k |-> "", row |-> [value |-> ab_value_m, direct |-> NoKey,
                                      final |-> NoKey]]
        ELSE IF target_a_mapped.k = "value" /\ target_b_mapped.k = "value"
        THEN [k |-> "", row |-> [value |-> NoKey, direct |-> NoKey,
                                 final |-> Rounded(FAbs(FSub(target_b_mapped.f,
                                                             target_a_mapped.f)))]]
        ELSE [k |-> "", row |-> NullRow]

\* map_raw_data: the rows of deviationData.csv, or the exception raised
DevMapRows(raw, well, stratigraphy_mapping) ==
    LET angle == MapResolvedAngle(raw.deviationAngle_deg, well)
        kickoff_mapped == DirectMap(raw.kickoffPoint_m, stratigraphy_mapping)
        target_a_mapped == DirectMap(raw.targetPointA_m, stratigraphy_mapping)
        target_b_mapped == DirectMap(raw.targetPointB_m, stratigraphy_mapping)
        target_a_vertical_mapped ==
            DirectMap(raw.targetPointA_verticalDepth_m, stratigraphy_mapping)
        real_kickoff_mapped == DirectMap(raw.REAL_kickoffPoint_m, stratigraphy_mapping)
        direct == {kickoff_mapped, target_a_mapped, target_b_mapped,
                   target_a_vertical_mapped, real_kickoff_mapped}
        failed == {m \in direct : m.k \notin {"value", "none"}}
        triple == MappedTriple(kickoff_mapped, target_a_mapped,
                               target_a_vertical_mapped, angle)
        distance == DistanceRow(raw, triple.target_a, target_b_mapped)
        Row(x, m, derived) == IF x.k = "num" THEN DirectRow(x, m) ELSE derived
    IN  IF failed # {} THEN [k |-> (CHOOSE m \in failed : TRUE).k, rows |-> <<>>]
        ELSE IF distance.k # "" THEN [k |-> distance.k, rows |-> <<>>]
        ELSE [k |-> "",
              rows |->
                [kickoffPoint_m |->
                    Row(raw.kickoffPoint_m, kickoff_mapped, DerivedRow(triple.kickoff)),
                 deviationAngle_deg |->
                    [value |-> IF raw.deviationAngle_deg.k = "num" THEN angle ELSE NoKey,
                     direct |-> IF raw.deviationAngle_deg.k = "num" THEN angle ELSE NoKey,
                     final |-> angle],
                 targetPointA_m |->
                    Row(raw.targetPointA_m, target_a_mapped, DerivedRow(triple.target_a)),
                 targetPointB_m |->
                    Row(raw.targetPointB_m, target_b_mapped, NullRow),
                 targetPointA_verticalDepth_m |->
                    Row(raw.targetPointA_verticalDepth_m, target_a_vertical_mapped,
                        DerivedRow(triple.target_a_vertical)),
                 REAL_kickoffPoint_m |->
                    Row(raw.REAL_kickoffPoint_m, real_kickoff_mapped, NullRow),
                 DistanceAB_m |-> distance.row]]

----------------------------------------------------------------------------
(* Inputs *)

SeqsUpTo(S, n) == UNION {[1..m -> S] : m \in 0..n}

LayerPairs ==
    {p \in DepthGrid \X DepthGrid : p[1] < p[2]}
        \cup {<<1, 1>>, <<DeepDepth, DeepDepth>>, <<3, 1>>}

NumericLayers ==
    {Layer(Str, Num(p[1]), Num(p[2])) : p \in LayerPairs}
        \cup {Layer(EmptyStr, Num(0), Num(1)), Layer(EmptyStr, Num(1), Num(3))}

----------------------------------------------------------------------------
(* The stratigraphy extractor: extract, map, query *)

Init ==
    /\ extractor = "StratigraphyExtractor"
    /\ data \in SeqsUpTo(NumericLayers, MaxLayers)
    /\ validation = NotRun
    /\ stratigraphy_raw = NoFile
    /\ layers = <<>>
    /\ stratigraphy_csv = NoFile
    /\ actual_depth_m = 0
    /\ mapped_depth_cm = NoValue
    /\ raised = ""
    /\ well_data = NoWell
    /\ deviation_data = NoDeviation
    /\ deviation_raw = NoFile
    /\ deviation_csv = NoFile
    /\ plotter = NoPlotter
    /\ sections = NoSections
    /\ pipeline = NoPipeline

\* StratigraphyExtractor.process_step1_extract
ExportRawData ==
    /\ extractor = "StratigraphyExtractor"
    /\ ~stratigraphy_raw.exists
    /\ IF SortRaises(data)
       THEN /\ raised' = "KeyError"
            /\ UNCHANGED stratigraphy_raw
       ELSE /\ raised' = ""
            /\ stratigraphy_raw' = File(StratExportRows(data))
    /\ UNCHANGED <<pipeVars, extractor, data, validation, layers, stratigraphy_csv,
                   queryVars, devVars>>

\* StratigraphyExtractor.process_step2_map
MapRawData ==
    /\ extractor = "StratigraphyExtractor"
    /\ ~stratigraphy_csv.exists
    /\ raised = ""
    /\ IF ~stratigraphy_raw.exists
       THEN /\ raised' = "FileNotFoundError"
            /\ UNCHANGED <<layers, stratigraphy_csv>>
       ELSE IF stratigraphy_raw.rows # <<>> /\ SumThickness(stratigraphy_raw.rows) = 0
       THEN /\ raised' = "ZeroDivisionError"
            /\ UNCHANGED <<layers, stratigraphy_csv>>
       ELSE /\ raised' = ""
            /\ layers' = MappedLayers(stratigraphy_raw.rows)
            /\ stratigraphy_csv' = File(CsvRows(MappedLayers(stratigraphy_raw.rows)))
    /\ UNCHANGED <<pipeVars, extractor, data, validation, stratigraphy_raw,
                   queryVars, devVars>>

\* DepthMappingMixin.calculate_mapped_depth on the loaded mapping table
CalculateMappedDepth ==
    /\ stratigraphy_csv.exists
    /\ \E d \in QueryDepths :
        LET r == calculate_mapped_depth(d, stratigraphy_csv.rows)
        IN  /\ actual_depth_m' = d
            /\ mapped_depth_cm' = r
            /\ raised' = IF r.k = "value" THEN "" ELSE r.k
    /\ UNCHANGED <<pipeVars, extractor, data, validation, stratVars, devVars>>

Next == ExportRawData \/ MapRawData \/ CalculateMappedDepth

Spec == Init /\ [][Next]_vars

----------------------------------------------------------------------------
(* The continuity validators, each run by its own extractor object *)

DefectiveLayers ==
    {Layer(Absent, Num(0), Num(1)),
     Layer(Str, Absent, Num(1)),
     Layer(Str, Num(1), Absent)}

FluidSections ==
    {Section(Num(p[1]), Num(p[2]), Num(1), "min-max") : p \in LayerPairs}
        \cup {Section(Absent, Num(1), Num(1), "min-max"),
              Section(Num(1), Absent, Num(1), "min-max"),
              Section(Num(0), Num(1), Absent, "min-max"),
              Section(Num(1), Num(3), Num(1), "absent"),
              Section(Num(1), Num(3), Num(1), "malformed")}

InitValidate ==
    /\ \/ /\ extractor = "StratigraphyExtractor"
          /\ data \in SeqsUpTo(NumericLayers \cup DefectiveLayers, MaxLayers)
       \/ /\ extractor = "DrillingFluidExtractor"
          /\ data \in SeqsUpTo(FluidSections, MaxLayers)
    /\ validation = NotRun
    /\ stratigraphy_raw = NoFile
    /\ layers = <<>>
    /\ stratigraphy_csv = NoFile
    /\ actual_depth_m = 0
    /\ mapped_depth_cm = NoValue
    /\ raised = ""
    /\ well_data = NoWell
    /\ deviation_data = NoDeviation
    /\ deviation_raw = NoFile
    /\ deviation_csv = NoFile
    /\ plotter = NoPlotter
    /\ sections = NoSections
    /\ pipeline = NoPipeline

\* StratigraphyExtractor.validate_continuity
StratValidateContinuity ==
    /\ extractor = "StratigraphyExtractor"
    /\ validation = NotRun
    /\ validation' = StratValidate(data)
    /\ raised' = IF StratValidate(data).k = "True" THEN "" ELSE StratValidate(data).k
    /\ UNCHANGED <<pipeVars, extractor, data, stratVars, queryVars, devVars>>

\* DrillingFluidExtractor.validate_continuity
FluidValidateContinuity ==
    /\ extractor = "DrillingFluidExtractor"
    /\ validation = NotRun
    /\ validation' = FluidValidate(data)
    /\ raised' = IF FluidValidate(data).k = "True" THEN "" ELSE FluidValidate(data).k
    /\ UNCHANGED <<pipeVars, extractor, data, stratVars, queryVars, devVars>>

NextValidate == StratValidateContinuity \/ FluidValidateContinuity

SpecValidate == InitValidate /\ [][NextValidate]_vars

----------------------------------------------------------------------------
(* The trajectory record: validation, raw export, mapping, type detection *)

WellTypeStrings ==
    {<<"s", "t", "r", "a", "i", "g", "h", "t", " ", "w", "e", "l", "l">>,
     <<" ", "S", "t", "r", "a", "i", "g", "h", "t", " ", "W", "e", "l", "l", " ">>,
     <<"d", "e", "v", "i", "a", "t", "e", "d", " ", "w", "e", "l", "l">>,
     <<"D", "e", "v", "i", "a", "t", "e", "d", " ", "W", "e", "l", "l", " ">>,
     <<"h", "o", "r", "i", "z", "o", "n", "t", "a", "l", " ", "w", "e", "l", "l">>,
     <<"v", "e", "r", "t", "i", "c", "a", "l", " ", "w", "e", "l", "l">>,
     <<>>}

WellTypes ==
    {[k |-> "str", s |-> str] : str \in WellTypeStrings}
        \cup {[k |-> "absent", s |-> <<>>], [k |-> "null", s |-> <<>>]}

Angles ==
    {NoKey, JNull, JEmpty, Val(F(-5)), Val(F(0)), Val(F(1)), Val(F(89)), Val(F(100))}

DeviationRecords ==
    [kickoffPoint_m : {NoKey, JNull, Val(F(10))},
     deviationAngle_deg : Angles,
     targetPointA_m : {NoKey, Val(F(20))},
     targetPointA_verticalDepth_m : {NoKey, Val(F(18))},
     targetPointB_m : {NoKey, Val(F(20)), Val(F(40))},
     DistanceAB_m : {NoKey, Val(F(20)), Val(<<1, 1000>>), Val(<<20002, 1000>>)},
     REAL_kickoffPoint_m : {NoKey, JNull, Val(F(5))}]

Wells ==
    [wellType : WellTypes,
     totalDepth_m : {NoKey, Val(F(DeepDepth))},
     deviationData : DeviationRecords]

\* the stratigraphy the trajectory is mapped against: three gapless layers
\* that reach below every depth of DeviationRecords
TrajectoryStrata ==
    <<[name |-> "L", topDepth_m |-> 0, bottomDepth_m |-> 1],
      [name |-> "L", topDepth_m |-> 1, bottomDepth_m |-> 3],
      [name |-> "L", topDepth_m |-> 3, bottomDepth_m |-> 50]>>

InitDev ==
    /\ extractor = "DeviationDataExtractor"
    /\ data = <<>>
    /\ validation = NotRun
    /\ stratigraphy_raw = File(TrajectoryStrata)
    /\ layers = MappedLayers(TrajectoryStrata)
    /\ stratigraphy_csv = File(CsvRows(MappedLayers(TrajectoryStrata)))
    /\ actual_depth_m = 0
    /\ mapped_depth_cm = NoValue
    /\ raised = ""
    /\ well_data \in Wells
    /\ deviation_data = well_data.deviationData
    /\ deviation_raw = NoFile
    /\ deviation_csv = NoFile
    /\ plotter = NoPlotter
    /\ sections = NoSections
    /\ pipeline = NoPipeline

\* DeviationDataExtractor.validate_deviation_data on the extracted dict
ValidateDeviationData ==
    /\ extractor = "DeviationDataExtractor"
    /\ validation = NotRun
    /\ LET r == validate_deviation_data(deviation_data, well_data)
       IN  /\ validation' = IF r.k = "True" THEN Passed ELSE Failed(r.k, r.why, 0, "")
           /\ deviation_data' = r.data
    /\ UNCHANGED <<pipeVars, extractor, data, stratVars, queryVars, raised, well_data,
                   deviation_raw, deviation_csv, plotter>>

\* DeviationDataExtractor.process_step1_extract
DevExportRawData ==
    /\ extractor = "DeviationDataExtractor"
    /\ ~deviation_raw.exists
    /\ deviation_raw' = File(DevExportRows(well_data.deviationData))
    /\ UNCHANGED <<pipeVars, extractor, data, validation, stratVars, queryVars, raised,
                   well_data, deviation_data, deviation_csv, plotter>>

\* DeviationDataExtractor.process_step2_map
DevMapRawData ==
    /\ extractor = "DeviationDataExtractor"
    /\ deviation_raw.exists
    /\ stratigraphy_csv.exists
    /\ ~deviation_csv.exists
    /\ raised = ""
    /\ LET r == DevMapRows(deviation_raw.rows, well_data, stratigraphy_csv.rows)
       IN  /\ raised' = r.k
           /\ deviation_csv' = IF r.k = "" THEN File(r.rows) ELSE NoFile
    /\ UNCHANGED <<pipeVars, extractor, data, validation, stratVars, queryVars,
                   well_data, deviation_data, deviation_raw, plotter>>

\* StratigraphyPlotter.process on the files written so far
PlotterProcess ==
    /\ plotter = NoPlotter
    /\ sections = NoSections
    /\ pipeline = NoPipeline
    /\ well_data # NoWell
    /\ plotter' = Process(well_data, deviation_csv, stratigraphy_csv.exists)
    /\ UNCHANGED <<pipeVars, extractor, data, validation, stratVars, queryVars, raised,
                   well_data, deviation_data, deviation_raw, deviation_csv>>

NextDev ==
    ValidateDeviationData \/ DevExportRawData \/ DevMapRawData \/ PlotterProcess

SpecDev == InitDev /\ [][NextDev]_vars

----------------------------------------------------------------------------
(* WellStructurePlotPipeline.run *)

Intervals == {"fluid", "hole", "casing"}

\* the steps of run in program order
Steps ==
    <<"strat_extract", "raw_fluid", "raw_deviation", "raw_hole", "raw_casing",
      "strat_map", "map_fluid", "map_deviation", "map_hole", "map_casing", "plot">>

MapSteps == {"map_fluid", "map_deviation", "map_hole", "map_casing"}

\* the position after a step that did not abort the run
After(step) ==
    IF step = "plot" THEN "done"
    ELSE Steps[(CHOOSE i \in 1..Len(Steps) : Steps[i] = step) + 1]

\* _log_step
Logged(step, ok) == [step |-> step, ok |-> ok]

\* a step returned or its exception was caught inside run: go on; after the
\* last step run calls _save_report
Continue(step, ok, files) ==
    [pc |-> After(step), log |-> Append(pipeline.log, Logged(step, ok)),
     files |-> files, exit |-> 0, report |-> step = "plot"]

\* a step was passed over without a log entry
Skip(step) == [pipeline EXCEPT !.pc = After(step)]

\* the outer handler of run: log the run as failed, save the report,
\* sys.exit(1)
Abort ==
    [pc |-> "exit", log |-> Append(pipeline.log, Logged("run", FALSE)),
     files |-> pipeline.files, exit |-> 1, report |-> TRUE]

\* a dataset of well_data.json: its key is missing, or it is a list of
\* intervals with numeric depths
MissingKey == [k |-> "missing", rows |-> <<>>]
Listed(rows) == [k |-> "list", rows |-> rows]
OneInterval == <<[topDepth_m |-> 1, bottomDepth_m |-> 3]>>

\* the mapping of an interval dataset raises when a depth cannot be mapped
IntervalMapRaises(rows, stratigraphy_mapping) ==
    \E i \in 1..Len(rows) :
        \/ calculate_mapped_depth(rows[i].topDepth_m, stratigraphy_mapping).k # "value"
        \/ calculate_mapped_depth(rows[i].bottomDepth_m, stratigraphy_mapping).k # "value"

PipelineLayers ==
    {Layer(Str, Num(0), Num(1)), Layer(Str, Num(1), Num(3)),
     Layer(Str, Num(0), Num(3)), Layer(Str, Num(3), Num(DeepDepth)),
     Layer(EmptyStr, Num(0), Num(3)), Layer(Str, Num(1), Num(1)),
     Layer(Str, Absent, Num(1))}

PipelineWells ==
    {[wellType |-> [k |-> "str", s |-> <<"h", "o", "r", "i", "z", "o", "n", "t", "a", "l", " ", "w", "e", "l", "l">>],
      totalDepth_m |-> Val(F(DeepDepth)),
      deviationData |-> [NoDeviation EXCEPT !.kickoffPoint_m = Val(F(1)),
                                            !.deviationAngle_deg = Val(F(89)),
                                            !.targetPointA_m = Val(F(2)),
                                            !.targetPointB_m = Val(F(3))]],
     [wellType |-> [k |-> "str", s |-> <<"s", "t", "r", "a", "i", "g", "h", "t", " ", "w", "e", "l", "l">>],
      totalDepth_m |-> Val(F(3)),
      deviationData |-> NoDeviation],
     [wellType |-> [k |-> "null", s |-> <<>>],
      totalDepth_m |-> Val(F(3)),
      deviationData |-> NoDeviation]}

PipelineSections ==
    {sec \in [{"fluid", "deviation", "hole", "casing"} ->
                 {MissingKey, Listed(<<>>), Listed(OneInterval)}] :
        /\ sec["deviation"] # Listed(OneInterval)
        /\ sec["hole"] # Listed(<<>>)
        /\ sec["casing"] # Listed(<<>>)}

InitPipeline ==
    /\ extractor = "WellStructurePlotPipeline"
    /\ data \in SeqsUpTo(PipelineLayers, MaxLayers - 1)
    /\ validation = NotRun
    /\ stratigraphy_raw = NoFile
    /\ layers = <<>>
    /\ stratigraphy_csv = NoFile
    /\ actual_depth_m = 0
    /\ mapped_depth_cm = NoValue
    /\ raised = ""
    /\ well_data \in PipelineWells
    /\ deviation_data = well_data.deviationData
    /\ deviation_raw = NoFile
    /\ deviation_csv = NoFile
    /\ plotter = NoPlotter
    /\ sections \in PipelineSections
    /\ pipeline = [NoPipeline EXCEPT !.pc = "strat_extract"]

\* stage 1, stratigraphy: process_step1_extract, outside every inner try
PipeStratExtract ==
    /\ pipeline.pc = "strat_extract"
    /\ IF SortRaises(data)
       THEN /\ pipeline' = Abort
            /\ raised' = "KeyError"
            /\ UNCHANGED stratigraphy_raw
       ELSE /\ pipeline' = Continue("strat_extract", TRUE, pipeline.files)
            /\ raised' = ""
            /\ stratigraphy_raw' = File(StratExportRows(data))
    /\ UNCHANGED <<sections, extractor, data, validation, layers, stratigraphy_csv,
                   queryVars, devVars>>

\* stage 1, drilling fluid, hole sections, casing sections: the exception of
\* process_step1_extract is caught and logged
PipeRawInterval ==
    \E d \in Intervals :
        /\ pipeline.pc = Steps[CHOOSE i \in 1..Len(Steps) : Steps[i] = "raw_" \o d]
        /\ IF sections[d].k = "missing"
           THEN pipeline' = Continue("raw_" \o d, FALSE, pipeline.files)
           ELSE pipeline' = Continue("raw_" \o d, TRUE, pipeline.files \cup {d \o "_raw"})
        /\ UNCHANGED <<sections, extractor, data, validation, stratVars, queryVars,
                       raised, devVars>>

\* stage 1, trajectory
PipeRawDeviation ==
    /\ pipeline.pc = "raw_deviation"
    /\ IF sections["deviation"].k = "missing"
       THEN /\ pipeline' = Continue("raw_deviation", FALSE, pipeline.files)
            /\ UNCHANGED deviation_raw
       ELSE /\ pipeline' = Continue("raw_deviation", TRUE, pipeline.files)
            /\ deviation_raw' = File(DevExportRows(well_data.deviationData))
    /\ UNCHANGED <<sections, extractor, data, validation, stratVars, queryVars,
                   raised, well_data, deviation_data, deviation_csv, plotter>>

\* the stratigraphy mapping step treated like the other datasets: its
\* exception logged and the run continued
PipeStratMapLogged ==
    /\ pipeline.pc = "strat_map"
    /\ IF stratigraphy_raw.rows # <<>> /\ SumThickness(stratigraphy_raw.rows) = 0
       THEN /\ pipeline' = Continue("strat_map", FALSE, pipeline.files)
            /\ raised' = "ZeroDivisionError"
            /\ UNCHANGED <<layers, stratigraphy_csv>>
       ELSE /\ pipeline' = Continue("strat_map", TRUE, pipeline.files)
            /\ raised' = ""
            /\ layers' = MappedLayers(stratigraphy_raw.rows)
            /\ stratigraphy_csv' = File(CsvRows(MappedLayers(stratigraphy_raw.rows)))
    /\ UNCHANGED <<sections, extractor, data, validation, stratigraphy_raw,
                   queryVars, devVars>>

\* stage 2, stratigraphy: process_step2_map, outside every inner try
PipeStratMap ==
    /\ pipeline.pc = "strat_map"
    /\ IF stratigraphy_raw.rows # <<>> /\ SumThickness(stratigraphy_raw.rows) = 0
       THEN /\ pipeline' = Abort
            /\ raised' = "ZeroDivisionError"
            /\ UNCHANGED <<layers, stratigraphy_csv>>
       ELSE /\ pipeline' = Continue("strat_map", TRUE, pipeline.files)
            /\ raised' = ""
            /\ layers' = MappedLayers(stratigraphy_raw.rows)
            /\ stratigraphy_csv' = File(CsvRows(MappedLayers(stratigraphy_raw.rows)))
    /\ UNCHANGED <<sections, extractor, data, validation, stratigraphy_raw,
                   queryVars, devVars>>

\* stage 2, drilling fluid, hole sections, casing sections: skipped without
\* the raw file; the exception of process_step2_map is caught and logged
PipeMapInterval ==
    \E d \in Intervals :
        /\ pipeline.pc = Steps[CHOOSE i \in 1..Len(Steps) : Steps[i] = "map_" \o d]
        /\ IF (d \o "_raw") \notin pipeline.files
           THEN pipeline' = Skip("map_" \o d)
           ELSE IF IntervalMapRaises(sections[d].rows, stratigraphy_csv.rows)
           THEN pipeline' = Continue("map_" \o d, FALSE, pipeline.files)
           ELSE pipeline' = Continue("map_" \o d, TRUE, pipeline.files \cup {d})
        /\ UNCHANGED <<sections, extractor, data, validation, stratVars, queryVars,
                       raised, devVars>>

\* stage 2, trajectory
PipeMapDeviation ==
    /\ pipeline.pc = "map_deviation"
    /\ IF ~deviation_raw.exists
       THEN /\ pipeline' = Skip("map_deviation")
            /\ UNCHANGED deviation_csv
       ELSE LET r == DevMapRows(deviation_raw.rows, well_data, stratigraphy_csv.rows)
            IN  /\ pipeline' = Continue("map_deviation", r.k = "", pipeline.files)
                /\ deviation_csv' = IF r.k = "" THEN File(r.rows) ELSE NoFile
    /\ UNCHANGED <<sections, extractor, data, validation, stratVars, queryVars,
                   raised, well_data, deviation_data, deviation_raw, plotter>>

\* stage 3 with a process that lets its exception out: the handler of the
\* plot block in run logs the step as failed
PipePlotUncaught ==
    /\ pipeline.pc = "plot"
    /\ plotter' = Process(well_data, deviation_csv,
                          stratigraphy_csv.exists /\ Intervals \subseteq pipeline.files)
    /\ pipeline' = Continue("plot", plotter'.stage = "drawn", pipeline.files)
    /\ UNCHANGED <<sections, extractor, data, validation, stratVars, queryVars,
                   raised, well_data, deviation_data, deviation_raw, deviation_csv>>

\* stage 3: StratigraphyPlotter.process, which catches its own exceptions
PipePlot ==
    /\ pipeline.pc = "plot"
    /\ pipeline' = Continue("plot", TRUE, pipeline.files)
    /\ plotter' = Process(well_data, deviation_csv,
                          stratigraphy_csv.exists /\ Intervals \subseteq pipeline.files)
    /\ UNCHANGED <<sections, extractor, data, validation, stratVars, queryVars,
                   raised, well_data, deviation_data, deviation_raw, deviation_csv>>

NextPipeline ==
    \/ PipeStratExtract
    \/ PipeRawInterval
    \/ PipeRawDeviation
    \/ PipeStratMap
    \/ PipeMapInterval
    \/ PipeMapDeviation
    \/ PipePlot

SpecPipeline == InitPipeline /\ [][NextPipeline]_vars

----------------------------------------------------------------------------
(* Properties of the depth mapping *)

Table == stratigraphy_csv.rows

\* every layer has top < bottom and every bottom is the next layer's top
Gapless(rows) ==
    /\ rows # <<>>
    /\ \A i \in 1..Len(rows) :
        /\ rows[i].topDepth_m < rows[i].bottomDepth_m
        /\ i < Len(rows) => rows[i].bottomDepth_m = rows[i + 1].topDepth_m

\* every layer has top < bottom and no layer starts above the end of the
\* layer before it
WellOrdered(rows) ==
    /\ rows # <<>>
    /\ \A i \in 1..Len(rows) :
        /\ rows[i].topDepth_m < rows[i].bottomDepth_m
        /\ i < Len(rows) => rows[i].bottomDepth_m <= rows[i + 1].topDepth_m

Mapped(d) == calculate_mapped_depth(d, Table)

\* C1: on a mapping table built by map_raw_data from a gapless stratigraphy,
\* calculate_mapped_depth is non-decreasing between the first layer's top
\* and the last layer's bottom.
C1_Monotone ==
    (stratigraphy_csv.exists /\ Gapless(stratigraphy_raw.rows)) =>
        LET range == Table[1].topDepth_m .. Table[Len(Table)].bottomDepth_m
        IN  \A m \in {[d \in range |-> Mapped(d)]} :
                \A d1, d2 \in range :
                    d1 < d2 =>
                        /\ m[d1].k = "value"
                        /\ m[d2].k = "value"
                        /\ FLe(m[d1].f, m[d2].f)

\* a three-layer gapless table with a layer at the minimum thickness has
\* answered a query strictly inside a layer
C1_Witness ==
    /\ stratigraphy_csv.exists
    /\ Gapless(stratigraphy_raw.rows)
    /\ Len(Table) = 3
    /\ Table[1].mapped_thickness_cm = min_thickness
    /\ mapped_depth_cm.k = "value"
    /\ actual_depth_m = 2
    /\ FLt(<<Table[2].mapped_top_cm, 1>>, mapped_depth_cm.f)
    /\ FLt(mapped_depth_cm.f, <<Table[2].mapped_bottom_cm, 1>>)

BoundaryExact(rows) ==
    \A i \in 1..Len(rows) :
        /\ calculate_mapped_depth(rows[i].topDepth_m, rows)
              = Value(<<rows[i].mapped_top_cm, 1>>)
        /\ calculate_mapped_depth(rows[i].bottomDepth_m, rows)
              = Value(<<rows[i].mapped_bottom_cm, 1>>)

\* C2 as stated: for every layer of the mapping table, the layer's top maps
\* to its mapped top and its bottom to its mapped bottom.
C2_Original == stratigraphy_csv.exists => BoundaryExact(Table)

\* C2: for every layer of a mapping table whose layers have top < bottom and
\* do not overlap, calculate_mapped_depth(top) is the layer's mapped top and
\* calculate_mapped_depth(bottom) is its mapped bottom, also at a boundary
\* shared by two layers, where the upper layer is matched first.
C2_BoundaryExact ==
    (stratigraphy_csv.exists /\ WellOrdered(Table)) => BoundaryExact(Table)

\* a query at a boundary shared by two layers was answered from the upper one
C2_Witness ==
    /\ stratigraphy_csv.exists
    /\ WellOrdered(Table)
    /\ Len(Table) >= 2
    /\ Table[1].bottomDepth_m = Table[2].topDepth_m
    /\ actual_depth_m = Table[2].topDepth_m
    /\ mapped_depth_cm = Value(<<Table[1].mapped_bottom_cm, 1>>)
    /\ Table[2].mapped_top_cm = Table[1].mapped_bottom_cm
    /\ Table[1].mapped_bottom_cm > 0

Extrapolated(rows) ==
    LET last == rows[Len(rows)]
    IN  \A d \in QueryDepths :
            d > last.bottomDepth_m =>
                LET r == calculate_mapped_depth(d, rows)
                IN  /\ r.k = "value"
                    /\ r.f[1] * last.bottomDepth_m = last.mapped_bottom_cm * d * r.f[2]

\* C3 as stated: every depth greater than the last layer's bottom maps to
\* lastLayer.mappedBottom * d / lastLayer.bottomDepth_m.
C3_Original == (stratigraphy_csv.exists /\ Table # <<>>) => Extrapolated(Table)

\* C3: on a mapping table whose layers have top < bottom and do not overlap,
\* every depth greater than the last layer's bottom maps to
\* lastLayer.mappedBottom * d / lastLayer.bottomDepth_m.
C3_Extrapolation ==
    (stratigraphy_csv.exists /\ WellOrdered(Table)) => Extrapolated(Table)

\* a query below the table was answered, and the answer differs from the
\* continuation of the last layer's slope
C3_Witness ==
    /\ stratigraphy_csv.exists
    /\ WellOrdered(Table)
    /\ Len(Table) >= 2
    /\ actual_depth_m > Table[Len(Table)].bottomDepth_m
    /\ mapped_depth_cm.k = "value"
    /\ mapped_depth_cm = OutOfRange(actual_depth_m, Table)
    /\ mapped_depth_cm # OutOfRangeLocalSlope(actual_depth_m, Table)

RECURSIVE SumMapped(_)
SumMapped(ls) ==
    IF ls = <<>> THEN <<0, 1>>
    ELSE FAdd(ls[1].mapped_thickness_cm, SumMapped(Tail(ls)))

Budget == <<total_mapped_thickness, 1>>
Minimum == <<min_thickness, 1>>

ProportionalShare(layer) ==
    Frac(layer.actual_thickness_m * total_mapped_thickness,
         SumThickness(stratigraphy_raw.rows))

Clamped(layer) == FLt(ProportionalShare(layer), Minimum)

FloorPerLayer ==
    \A i \in 1..Len(layers) :
        /\ FLe(Minimum, layers[i].mapped_thickness_cm)
        /\ Table[i].mapped_thickness_cm >= min_thickness
        /\ Clamped(layers[i]) => layers[i].mapped_thickness_cm = Minimum
        /\ ~Clamped(layers[i]) =>
              FEq(layers[i].mapped_thickness_cm, ProportionalShare(layers[i]))

TotalAtLeastBudget ==
    /\ FLe(Budget, SumMapped(layers))
    /\ (\E i \in 1..Len(layers) : Clamped(layers[i])) => FLt(Budget, SumMapped(layers))

\* C4 as stated: after map_raw_data every mapped thickness is at least 0.24,
\* clamped layers are exactly 0.24, the others keep their share, and the
\* realized total is at least the budget.
C4_Original == stratigraphy_csv.exists => (FloorPerLayer /\ TotalAtLeastBudget)

\* C4: after map_raw_data every layer's mapped thickness is at least 0.24, a
\* layer whose proportional share is below 0.24 is exactly 0.24 and every
\* other layer keeps exactly its share; when the table has at least one
\* layer the realized total is at least the budget, and strictly greater
\* when a layer was clamped.
C4_ThicknessFloor ==
    stratigraphy_csv.exists =>
        /\ FloorPerLayer
        /\ layers # <<>> => TotalAtLeastBudget

\* a table with a clamped and an unclamped layer, whose total exceeds the budget
C4_Witness ==
    /\ stratigraphy_csv.exists
    /\ \E i, j \in 1..Len(layers) :
        /\ Clamped(layers[i])
        /\ layers[i].mapped_thickness_cm = Minimum
        /\ ~Clamped(layers[j])
    /\ FLt(Budget, SumMapped(layers))

----------------------------------------------------------------------------
(* Properties of the continuity validators *)

Sortable(list) == list # <<>> /\ \A i \in 1..Len(list) : IsNum(list[i].topDepth_m)

\* some adjacent pair of the sorted input has current.bottom != next.top
BrokenPair(list) ==
    LET sorted == SortedByTop(list)
    IN  \E i \in 1..(Len(sorted) - 1) :
            sorted[i].bottomDepth_m # sorted[i + 1].topDepth_m

\* C5: validate_continuity raises for every input in which, after sorting
\* by topDepth_m, some adjacent pair has current.bottomDepth_m different from
\* next.topDepth_m, for a gap and for an overlap alike, with no tolerance.
C5_ContinuityRejection ==
    (validation # NotRun /\ Sortable(data) /\ BrokenPair(data)) =>
        /\ validation.k # "True"
        /\ raised # ""

\* the drilling-fluid validator rejected an overlap of one depth unit between
\* two otherwise valid sections
C5_Witness ==
    /\ extractor = "DrillingFluidExtractor"
    /\ validation = Failed("ValueError", "continuity", 1, "")
    /\ Len(data) = 2
    /\ SortedByTop(data)[1].bottomDepth_m.v = SortedByTop(data)[2].topDepth_m.v + 1

\* C6: whenever validate_continuity returns True, the input sorted by
\* topDepth_m is a perfect partition: every interval has top < bottom, every
\* bottom is the next interval's top, and every depth between the first top
\* and the last bottom lies in some interval.
C6_PerfectPartition ==
    validation.k = "True" =>
        /\ Sortable(data)
        /\ LET sorted == SortedByTop(data)
           IN  /\ \A i \in 1..Len(sorted) :
                    /\ IsNum(sorted[i].bottomDepth_m)
                    /\ sorted[i].topDepth_m.v < sorted[i].bottomDepth_m.v
                    /\ i < Len(sorted) =>
                          sorted[i].bottomDepth_m = sorted[i + 1].topDepth_m
               /\ \A d \in sorted[1].topDepth_m.v .. sorted[Len(sorted)].bottomDepth_m.v :
                    \E i \in 1..Len(sorted) :
                        /\ sorted[i].topDepth_m.v <= d
                        /\ d <= sorted[i].bottomDepth_m.v

\* an input of three intervals given out of order was accepted
C6_Witness ==
    /\ validation = Passed
    /\ Len(data) = 3
    /\ data # SortedByTop(data)

----------------------------------------------------------------------------
(* Properties of the trajectory record *)

\* the well type of the file after trimming and lower-casing, <<>> when the
\* key is absent or null
GivenType ==
    IF well_data.wellType.k = "str" THEN Lower(Strip(well_data.wellType.s)) ELSE <<>>

\* the angle the file supplies
GivenAngle == well_data.deviationData.deviationAngle_deg

\* the record carries the Straight values for total depth t
StraightRecord(dd, t) ==
    /\ dd.deviationAngle_deg = Val(F(0))
    /\ dd.kickoffPoint_m = t
    /\ dd.targetPointA_m = t
    /\ dd.targetPointA_verticalDepth_m = t
    /\ dd.targetPointB_m = t
    /\ dd.REAL_kickoffPoint_m = t
    /\ dd.DistanceAB_m = Val(F(0))

GivenDepth ==
    IF well_data.totalDepth_m.k = "absent" THEN Val(F(0)) ELSE well_data.totalDepth_m

Validated == extractor = "DeviationDataExtractor" /\ validation # NotRun
MappedFile == extractor = "DeviationDataExtractor" /\ deviation_csv.exists
StoredAngle == deviation_data.deviationAngle_deg
MappedAngle == deviation_csv.rows.deviationAngle_deg.final

\* C7: for the well type "straight well" (after trimming and lower-casing)
\* with total depth T, validate_deviation_data returns True with angle 0,
\* kickoff = A = A-vertical = B = REAL kickoff = T and DistanceAB = 0, whatever
\* the record supplied; detect_well_type gives the plotter the same record.
C7_StraightDefaults ==
    GivenType = straight_well =>
        /\ Validated =>
              /\ validation = Passed
              /\ StraightRecord(deviation_data, GivenDepth)
        /\ plotter # NoPlotter =>
              /\ plotter.well_type = straight_well
              /\ StraightRecord(plotter.data, GivenDepth)

\* a padded, capitalised "straight well" whose record supplied an angle of 89
\* degrees and its own depths was validated and detected
C7_Witness ==
    /\ Validated
    /\ plotter # NoPlotter
    /\ well_data.wellType.k = "str"
    /\ well_data.wellType.s # straight_well
    /\ GivenType = straight_well
    /\ GivenAngle = Val(F(89))
    /\ well_data.deviationData.kickoffPoint_m = Val(F(10))
    /\ well_data.deviationData.targetPointB_m = Val(F(40))
    /\ well_data.totalDepth_m = Val(F(DeepDepth))
    /\ deviation_data.targetPointB_m = Val(F(DeepDepth))

\* the angle the override rule prescribes for a supplied angle
Overridden(angle) == IF FLe(angle.v, F(1)) THEN Val(F(30)) ELSE angle

\* C8: for a deviated well every supplied angle of at most 1 degree is stored
\* as 30, by validate_deviation_data and by map_raw_data, and a supplied angle
\* above 1 degree is stored unchanged; for a horizontal well the supplied
\* angle is stored unchanged, and for a straight well validation stores 0 and
\* the mapping stores the supplied angle.
C8_LowAngleOverride ==
    GivenAngle.k = "num" =>
        /\ (Validated /\ GivenType = deviated_well) =>
              StoredAngle = Overridden(GivenAngle)
        /\ (MappedFile /\ GivenType = deviated_well) =>
              MappedAngle = Overridden(GivenAngle)
        /\ (Validated /\ GivenType = horizontal_well) => StoredAngle = GivenAngle
        /\ (Validated /\ GivenType = straight_well) => StoredAngle = Val(F(0))
        /\ (MappedFile /\ GivenType \in {horizontal_well, straight_well}) =>
              MappedAngle = GivenAngle

\* a deviated well with a supplied angle of exactly 1 degree was validated
\* and mapped, and both stored 30
C8_Witness ==
    /\ Validated
    /\ MappedFile
    /\ GivenType = deviated_well
    /\ GivenAngle = Val(F(1))
    /\ StoredAngle = Val(F(30))
    /\ MappedAngle = Val(F(30))

\* C9: a missing angle (absent, null or empty) resolves to 90 degrees for a
\* horizontal well and to 45 degrees for a deviated well, where it stays 45,
\* in validate_deviation_data and in map_raw_data.
C9_DefaultAngle ==
    GivenAngle.k \in {"absent", "null", "empty"} =>
        /\ (Validated /\ GivenType = horizontal_well) => StoredAngle = Val(F(90))
        /\ (Validated /\ GivenType = deviated_well) => StoredAngle = Val(F(45))
        /\ (MappedFile /\ GivenType = horizontal_well) => MappedAngle = Val(F(90))
        /\ (MappedFile /\ GivenType = deviated_well) => MappedAngle = Val(F(45))

\* a deviated well whose angle is null was validated and mapped, and both
\* stored 45
C9_Witness ==
    /\ Validated
    /\ MappedFile
    /\ GivenType = deviated_well
    /\ GivenAngle = JNull
    /\ StoredAngle = Val(F(45))
    /\ MappedAngle = Val(F(45))

\* the type string is absent, or is none of the three recognized types
Unrecognized ==
    \/ well_data.wellType.k = "absent"
    \/ /\ well_data.wellType.k = "str"
       /\ GivenType \notin {straight_well, deviated_well, horizontal_well}

\* C10: a well whose type string is unrecognized or absent is handled as a
\* Straight well: detect_well_type returns "straight well", and
\* validate_deviation_data returns True with the Straight values, as for the
\* literal type "straight well".
C10_UnrecognizedIsStraight ==
    (extractor = "DeviationDataExtractor" /\ Unrecognized) =>
        /\ plotter # NoPlotter =>
              plotter.k = "value" /\ plotter.well_type = straight_well
        /\ Validated =>
              /\ validation = Passed
              /\ StraightRecord(deviation_data, GivenDepth)

----------------------------------------------------------------------------
(* Properties of the trajectory geometry *)

Given == well_data.deviationData

\* the validator ran on a well that is not Straight and the angle passed the
\* range check, so the geometry was examined
GeometryExamined ==
    /\ Validated
    /\ GivenType # straight_well
    /\ FLe(F(0), StoredAngle.v)
    /\ FLe(StoredAngle.v, F(90))

Theta == Radians(StoredAngle.v)
SinTheta == Sin(StoredAngle.v)

\* ((a - k) / theta) * sin(theta) + k
VerticalOf(k, a) == FAdd(FMul(FDiv(FSub(a, k), Theta), SinTheta), k)
\* ((v - k) / sin(theta)) * theta + k
MeasuredOf(k, v) == FAdd(FMul(FDiv(FSub(v, k), SinTheta), Theta), k)
\* (a * sin(theta) - v * theta) / (sin(theta) - theta)
KickoffOf(a, v) ==
    FDiv(FSub(FMul(a, SinTheta), FMul(v, Theta)), FSub(SinTheta, Theta))

\* C11: for a well that is not Straight and theta = radians(angle) # 0, with
\* kickoff and targetA known and targetA_vertical not, targetA_vertical is set
\* to ((targetA - kickoff) / theta) * sin(theta) + kickoff; with kickoff and
\* targetA_vertical known and targetA not, targetA is set to
\* ((targetA_vertical - kickoff) / sin(theta)) * theta + kickoff.
C11_BuildArc ==
    (GeometryExamined /\ Theta # F(0) /\ deviation_data.kickoffPoint_m.k = "num") =>
        /\ (Given.targetPointA_m.k = "num"
               /\ IsMissing(Given.targetPointA_verticalDepth_m)) =>
              /\ deviation_data.targetPointA_verticalDepth_m.k = "num"
              /\ FEq(deviation_data.targetPointA_verticalDepth_m.v,
                     VerticalOf(deviation_data.kickoffPoint_m.v, Given.targetPointA_m.v))
        /\ (Given.targetPointA_verticalDepth_m.k = "num"
               /\ IsMissing(Given.targetPointA_m)) =>
              /\ deviation_data.targetPointA_m.k = "num"
              /\ FEq(deviation_data.targetPointA_m.v,
                     MeasuredOf(deviation_data.kickoffPoint_m.v,
                                Given.targetPointA_verticalDepth_m.v))

\* a horizontal well at 89 degrees with kickoff 10 and targetA 20 was accepted
\* with a vertical depth of A strictly between the kickoff and targetA
C11_Witness ==
    /\ validation = Passed
    /\ GivenType = horizontal_well
    /\ GivenAngle = Val(F(89))
    /\ Given.kickoffPoint_m = Val(F(10))
    /\ Given.targetPointA_m = Val(F(20))
    /\ Given.targetPointA_verticalDepth_m = NoKey
    /\ deviation_data.targetPointA_verticalDepth_m.k = "num"
    /\ FLt(F(10), deviation_data.targetPointA_verticalDepth_m.v)
    /\ FLt(deviation_data.targetPointA_verticalDepth_m.v, F(20))

\* C12: with targetA and targetA_vertical supplied and kickoffPoint_m not (a
\* well that is not Straight, sin(theta) # theta, sin(theta) # 0), the record's
\* kickoff becomes (targetA * sin(theta) - targetA_vertical * theta) /
\* (sin(theta) - theta), and the ordering check is made against that kickoff.
C12_KickoffFromTargets ==
    (/\ GeometryExamined
     /\ SinTheta # Theta
     /\ SinTheta # F(0)
     /\ Given.targetPointA_m.k = "num"
     /\ Given.targetPointA_verticalDepth_m.k = "num"
     /\ IsMissing(Given.kickoffPoint_m)) =>
        /\ deviation_data.kickoffPoint_m.k = "num"
        /\ FEq(deviation_data.kickoffPoint_m.v,
               KickoffOf(Given.targetPointA_m.v, Given.targetPointA_verticalDepth_m.v))
        /\ validation.k # "TypeError"
        /\ validation = Passed =>
              FLt(deviation_data.kickoffPoint_m.v, deviation_data.targetPointA_m.v)

\* the members of {targetA, targetB, DistanceAB} the file supplies
SuppliedTargets ==
    {f \in {"targetPointA_m", "targetPointB_m", "DistanceAB_m"} : Given[f].k = "num"}

\* |targetB - targetA| of the stored record
StoredSpan ==
    FAbs(FSub(deviation_data.targetPointB_m.v, deviation_data.targetPointA_m.v))

\* the stored record satisfies DistanceAB = |targetB - targetA|
SpanExact ==
    /\ deviation_data.targetPointA_m.k = "num"
    /\ deviation_data.targetPointB_m.k = "num"
    /\ deviation_data.DistanceAB_m.k = "num"
    /\ FEq(deviation_data.DistanceAB_m.v, StoredSpan)

\* the third member is the one the rule derives from the two given
ThirdDerived(targets) ==
    /\ "DistanceAB_m" \notin targets => SpanExact
    /\ "targetPointB_m" \notin targets =>
          /\ deviation_data.targetPointB_m.k = "num"
          /\ FEq(deviation_data.targetPointB_m.v,
                 FAdd(deviation_data.targetPointA_m.v, Given.DistanceAB_m.v))
    /\ "targetPointA_m" \notin targets =>
          /\ deviation_data.targetPointA_m.k = "num"
          /\ FEq(deviation_data.targetPointA_m.v,
                 FSub(Given.targetPointB_m.v, Given.DistanceAB_m.v))

\* C13 as stated: given exactly two valid members of {targetA, targetB,
\* DistanceAB} the third is derived and every accepted record has
\* DistanceAB = |targetB - targetA|; with fewer than two valid members
\* validate_deviation_data raises.
C13_Original ==
    Validated =>
        /\ (Cardinality(SuppliedTargets) = 2 /\ validation = Passed) =>
              (ThirdDerived(SuppliedTargets) /\ SpanExact)
        /\ Cardinality(SuppliedTargets) < 2 => validation.k # "True"

\* targetA counts as valid also when the build-arc equation derived it from
\* the kickoff and targetA_vertical before the three targets are counted
ArcGivesA ==
    /\ IsMissing(Given.targetPointA_m)
    /\ Given.targetPointA_verticalDepth_m.k = "num"
    /\ KickoffFallback(Given, well_data).k = "num"
    /\ Theta # F(0)
    /\ SinTheta # F(0)

ValidTargets ==
    SuppliedTargets \cup (IF ArcGivesA THEN {"targetPointA_m"} ELSE {})

\* C13: for a well that is not Straight, counting targetA as valid also when
\* the build-arc equation derived it: with exactly two valid members of
\* {targetA, targetB, DistanceAB} every accepted record has the third derived
\* by the rule and DistanceAB = |targetB - targetA|; with fewer than two valid
\* members the validator raises ValueError.
C13_TargetsAndDistance ==
    GeometryExamined =>
        /\ (Cardinality(ValidTargets) = 2 /\ validation = Passed) =>
              (ThirdDerived(ValidTargets) /\ SpanExact)
        /\ Cardinality(ValidTargets) < 2 =>
              validation = Failed("ValueError", "two of A, B, AB", 0, "")

\* targetA 20 and DistanceAB 20 were supplied without targetB, and the record
\* was accepted with targetB = 40
C13_Witness ==
    /\ validation = Passed
    /\ GivenType = horizontal_well
    /\ Given.targetPointA_m = Val(F(20))
    /\ Given.DistanceAB_m = Val(F(20))
    /\ Given.targetPointB_m = NoKey
    /\ deviation_data.targetPointB_m = Val(F(40))

\* the supplied A, B and DistanceAB, when all three are supplied
AllThreeSupplied == Cardinality(SuppliedTargets) = 3
SuppliedGap ==
    FAbs(FSub(FAbs(FSub(Given.targetPointB_m.v, Given.targetPointA_m.v)),
              Given.DistanceAB_m.v))

\* C14 as stated: with targetA, targetB and DistanceAB all supplied the record
\* is accepted only if ||targetB - targetA| - DistanceAB| <= 0.001; otherwise
\* the validator raises and does not return success.
C14_Original ==
    (Validated /\ AllThreeSupplied /\ FLt(<<1, 1000>>, SuppliedGap)) =>
        validation.k # "True"

\* C14: for a well that is not Straight, with targetA, targetB and DistanceAB
\* all supplied the record is accepted only if
\* ||targetB - targetA| - DistanceAB| <= 0.001; otherwise the validator raises
\* the inconsistency ValueError and does not return success.
C14_DistanceConsistency ==
    (GeometryExamined /\ AllThreeSupplied /\ FLt(<<1, 1000>>, SuppliedGap)) =>
        validation = Failed("ValueError", "inconsistent AB", 0, "")

\* a record with A 20, B 40 and DistanceAB 20.002 was rejected as inconsistent,
\* two thousandths being above the tolerance
C14_Witness ==
    /\ validation = Failed("ValueError", "inconsistent AB", 0, "")
    /\ Given.targetPointA_m = Val(F(20))
    /\ Given.targetPointB_m = Val(F(40))
    /\ Given.DistanceAB_m = Val(<<20002, 1000>>)

\* C15: with kickoff, targetA and targetA_vertical all supplied for a well
\* that is not Straight, the record is rejected unless targetA_vertical agrees
\* with ((targetA - kickoff) / theta) * sin(theta) + kickoff within 0.001 m.
C15_TripleConsistency ==
    (/\ GeometryExamined
     /\ Theta # F(0)
     /\ Given.kickoffPoint_m.k = "num"
     /\ Given.targetPointA_m.k = "num"
     /\ Given.targetPointA_verticalDepth_m.k = "num"
     /\ FLt(<<1, 1000>>,
            FAbs(FSub(Given.targetPointA_verticalDepth_m.v,
                      VerticalOf(Given.kickoffPoint_m.v, Given.targetPointA_m.v))))) =>
        validation.k # "True"

\* kickoff < targetA <= targetB and 0 <= angle <= 90 on the stored record
OrderedRecord ==
    /\ deviation_data.kickoffPoint_m.k = "num"
    /\ deviation_data.targetPointA_m.k = "num"
    /\ deviation_data.targetPointB_m.k = "num"
    /\ FLt(deviation_data.kickoffPoint_m.v, deviation_data.targetPointA_m.v)
    /\ FLe(deviation_data.targetPointA_m.v, deviation_data.targetPointB_m.v)
    /\ FLe(F(0), StoredAngle.v)
    /\ FLe(StoredAngle.v, F(90))

OrderingError == Failed("ValueError", "order", 0, "")

\* C16 as stated: every record for which validate_deviation_data returns
\* successfully satisfies kickoff < targetA <= targetB and 0 <= angle <= 90
\* on its stored values.
C16_Original == validation = Passed => OrderedRecord

\* C16: every record of a well that is not Straight for which the validator
\* returns successfully satisfies kickoff < targetA <= targetB and
\* 0 <= angle <= 90 on its stored values, and the ordering ValueError is
\* raised only for a record that violates the ordering; the record of a
\* Straight well is accepted with kickoff = targetA = targetB = totalDepth_m.
C16_OrderingInvariant ==
    Validated =>
        /\ (GivenType # straight_well /\ validation = Passed) => OrderedRecord
        /\ (GivenType # straight_well /\ validation = OrderingError) => ~OrderedRecord
        /\ GivenType = straight_well =>
              /\ validation = Passed
              /\ deviation_data.kickoffPoint_m = deviation_data.targetPointA_m
              /\ deviation_data.targetPointA_m = deviation_data.targetPointB_m

\* a horizontal well without kickoff took totalDepth_m as its kickoff, which
\* lies below targetA, and was rejected for the ordering
C16_Witness ==
    /\ validation = OrderingError
    /\ GivenType = horizontal_well
    /\ Given.kickoffPoint_m = NoKey
    /\ deviation_data.kickoffPoint_m = Val(F(DeepDepth))
    /\ deviation_data.targetPointA_m = Val(F(20))
    /\ deviation_data.targetPointB_m = Val(F(40))

\* the members of {kickoff, targetA, targetA_vertical} known when the triple
\* is examined
KnownTriple ==
    (IF KickoffFallback(Given, well_data).k = "num" THEN {"kickoff"} ELSE {})
        \cup (IF Given.targetPointA_m.k = "num" THEN {"target_a"} ELSE {})
        \cup (IF Given.targetPointA_verticalDepth_m.k = "num"
              THEN {"target_a_vertical"} ELSE {})

\* the angle is degenerate for the branch that two known members call for
DegenerateBranch ==
    /\ Cardinality(KnownTriple) = 2
    /\ IF "kickoff" \in KnownTriple
       THEN Theta = F(0) \/ SinTheta = F(0)
       ELSE SinTheta = Theta \/ SinTheta = F(0)

\* C17: when the triple {kickoff, targetA, targetA_vertical} has fewer than
\* two known members, or the angle is degenerate for the branch that is
\* needed, validate_deviation_data fails instead of continuing with the
\* missing member unresolved.
C17_UnsolvableGeometry ==
    (GeometryExamined /\ (Cardinality(KnownTriple) < 2 \/ DegenerateBranch)) =>
        validation.k # "True"

----------------------------------------------------------------------------
(* Properties of the pipeline *)

InPipeline == extractor = "WellStructurePlotPipeline"

\* the steps of the log that map an interval dataset or the trajectory, or draw
Dependent == MapSteps \cup {"plot"}

\* some step of the run has failed
StepFailed(i) == ~pipeline.log[i].ok

\* C18: in the pipeline the first failure of any dataset's extraction,
\* validation or mapping aborts the run: the failed step is the last one
\* executed, no later step runs and the drawing is never reached
C18_FirstFailureAborts ==
    InPipeline =>
        \A i \in 1..Len(pipeline.log) :
            StepFailed(i) => /\ i = Len(pipeline.log)
                         /\ pipeline.pc = "exit"

\* the mapping table of the stratigraphy has been written by this run
TableBuilt(i) ==
    /\ stratigraphy_csv.exists
    /\ \E j \in 1..(i - 1) : pipeline.log[j] = Logged("strat_map", TRUE)

\* C19: the mapping table of the stratigraphy is built before any of the four
\* other mapping steps starts, and when the extraction or the mapping of the
\* stratigraphy raises, none of the four mapping steps and no drawing runs
C19_StratigraphyFirst ==
    InPipeline =>
        /\ \A i \in 1..Len(pipeline.log) :
              pipeline.log[i].step \in Dependent => TableBuilt(i)
        /\ pipeline.pc \in Dependent \cup {"done"} => stratigraphy_csv.exists
        /\ raised # "" =>
              /\ pipeline.pc = "exit"
              /\ pipeline.exit = 1
              /\ \A i \in 1..Len(pipeline.log) : pipeline.log[i].step \notin Dependent
              /\ pipeline.files \cap Intervals = {}
              /\ ~deviation_csv.exists
              /\ plotter = NoPlotter

\* the mapping of the stratigraphy raised while raw files of other datasets
\* were waiting to be mapped
C19_Witness ==
    /\ InPipeline
    /\ raised = "ZeroDivisionError"
    /\ pipeline.pc = "exit"
    /\ "fluid_raw" \in pipeline.files
    /\ deviation_raw.exists

\* C20: the stratigraphy is checked by the continuity validator before the
\* mapping is built: a stratigraphy that validate_continuity rejects never
\* yields a mapping table
C20_ValidatedBeforeMapping ==
    InPipeline /\ stratigraphy_csv.exists => StratValidate(data).k = "True"

----------------------------------------------------------------------------
(* Properties of the mapped trajectory *)

\* the parameters deviationData_raw.csv holds a value for
InRaw(f) == deviation_raw.rows[f].k = "num"

RawTriple ==
    {f \in {"kickoffPoint_m", "targetPointA_m", "targetPointA_verticalDepth_m"} :
        InRaw(f)}

RawTargets == {f \in {"targetPointA_m", "targetPointB_m", "DistanceAB_m"} : InRaw(f)}

\* the final mapped value of a row of deviationData.csv
Final(f) == deviation_csv.rows[f].final
Direct(f) == deviation_csv.rows[f].direct

MappedTheta == Radians(MappedAngle.v)
MappedSin == Sin(MappedAngle.v)

\* no relation of the mapped geometry is skipped for the angle
Nondegenerate ==
    /\ ~FEq(MappedTheta, F(0))
    /\ ~FEq(MappedSin, F(0))
    /\ ~FEq(MappedSin, MappedTheta)

\* C21: whenever each constraint triple has at least two known members in the
\* raw input and the angle is nondegenerate, the output of map_raw_data is
\* fully determined: kickoff, targetA, targetA_vertical, targetB and the AB
\* distance all carry a final mapped value
C21_FullyDetermined ==
    /\ MappedFile
    /\ Cardinality(RawTriple) >= 2
    /\ Cardinality(RawTargets) >= 2
    /\ Nondegenerate
    => \A f \in {"kickoffPoint_m", "targetPointA_m", "targetPointA_verticalDepth_m",
                 "targetPointB_m", "DistanceAB_m"} : Final(f).k = "num"

\* the two drawing-space AB distances of map_raw_data
DirectDistance ==
    FAbs(FSub(DirectMap(deviation_raw.rows.targetPointB_m, stratigraphy_csv.rows).f,
              DirectMap(deviation_raw.rows.targetPointA_m, stratigraphy_csv.rows).f))

ScaledDistance ==
    FMul(deviation_raw.rows.DistanceAB_m.v,
         FDiv(DirectMap(deviation_raw.rows.targetPointB_m, stratigraphy_csv.rows).f,
              deviation_raw.rows.targetPointB_m.v))

\* the values the AB-distance row of deviationData.csv holds
RetainedDistances == {Direct("DistanceAB_m"), Final("DistanceAB_m")}

\* C22: the drawing-space AB distance is computed directly as
\* |mappedTargetB - mappedTargetA| and by scaling DistanceAB_m by the mapping
\* ratio at B, and the output of map_raw_data retains both values
C22_BothDistancesRetained ==
    /\ MappedFile
    /\ InRaw("targetPointA_m")
    /\ InRaw("targetPointB_m")
    /\ InRaw("DistanceAB_m")
    => /\ Rounded(DirectDistance) \in RetainedDistances
       /\ Rounded(ScaledDistance) \in RetainedDistances

----------------------------------------------------------------------------
(* Properties of the renderer *)

\* the renderer classified the well as deviated and drew its trajectory from
\* deviationData.csv
DeviatedDrawn ==
    /\ plotter.stage = "drawn"
    /\ plotter.well_type = deviated_well
    /\ deviation_csv.exists

----------------------------------------------------------------------------
(* Closure of the build-arc equations *)

TripleFields == {"kickoffPoint_m", "targetPointA_m", "targetPointA_verticalDepth_m"}

\* the validator solved one member of the triple from the other two
TripleSolved ==
    /\ GeometryExamined
    /\ Cardinality(KnownTriple) = 2
    /\ "kickoff" \in KnownTriple
    /\ \A f \in TripleFields : deviation_data[f].k = "num"

\* the equations skip no branch for the angle
StableAngle ==
    /\ ~FEq(Theta, F(0))
    /\ ~FEq(SinTheta, F(0))
    /\ ~FEq(SinTheta, Theta)

\* a member solved again from the other two members of the resolved record
SolvedAgain(f) ==
    ResolveTriple([deviation_data EXCEPT ![f] = NoKey],
                  IF f = "kickoffPoint_m" THEN NoKey ELSE deviation_data.kickoffPoint_m,
                  StoredAngle)[f]

----------------------------------------------------------------------------
(* Properties of the missing-field check *)

\* the required attribute an interval of the validated list lacks, if any
MissingOf(interval) ==
    IF extractor = "StratigraphyExtractor" THEN StratMissingField(interval)
    ELSE FluidMissingField(interval)

LacksAttribute == \E i \in 1..Len(data) : MissingOf(data[i]) # ""

\* C25: validate_continuity fails with a missing-field error that names the
\* index and the field whenever an interval lacks a required attribute,
\* whichever attribute it is, and with no other kind of error
C25_MissingFieldError ==
    /\ extractor \in {"StratigraphyExtractor", "DrillingFluidExtractor"}
    /\ validation # NotRun
    /\ LacksAttribute
    => /\ validation.k = "ValueError"
       /\ validation.why = "missing"
       /\ validation.index \in 1..Len(data)
       /\ validation.field # ""

----------------------------------------------------------------------------
(* Properties of the interpolation and of the mapping table *)

\* a depth was queried on the loaded mapping table
Queried ==
    /\ extractor = "StratigraphyExtractor"
    /\ stratigraphy_csv.exists
    /\ mapped_depth_cm # NoValue

\* the layers of the table that contain the queried depth
Containing ==
    {i \in 1..Len(Table) :
        /\ Table[i].topDepth_m <= actual_depth_m
        /\ actual_depth_m <= Table[i].bottomDepth_m}

FirstContaining == CHOOSE i \in Containing : \A j \in Containing : i <= j

\* r = mappedTop + (d - top) / (bottom - top) * (mappedBottom - mappedTop)
LinearIn(layer, d, r) ==
    r[1] * (layer.bottomDepth_m - layer.topDepth_m)
        = (layer.mapped_top_cm * (layer.bottomDepth_m - layer.topDepth_m)
             + (d - layer.topDepth_m) * (layer.mapped_bottom_cm - layer.mapped_top_cm))
          * r[2]

\* C26: for a depth inside [top, bottom] of some layer, calculate_mapped_depth
\* returns mappedTop + (d - top)/(bottom - top) * (mappedBottom - mappedTop) of
\* the first such layer in table order, and that layer's mappedTop when its
\* thickness is 0; for a depth below the first layer's top it returns the
\* first layer's mappedTop
C26_Interpolation ==
    Queried =>
        IF Containing # {}
        THEN LET layer == Table[FirstContaining]
             IN  /\ mapped_depth_cm.k = "value"
                 /\ IF layer.bottomDepth_m = layer.topDepth_m
                    THEN mapped_depth_cm.f = <<layer.mapped_top_cm, 1>>
                    ELSE LinearIn(layer, actual_depth_m, mapped_depth_cm.f)
        ELSE (Table # <<>> /\ actual_depth_m < Table[1].topDepth_m) =>
                mapped_depth_cm = Value(<<Table[1].mapped_top_cm, 1>>)

\* a depth strictly inside the second layer of the table was mapped strictly
\* between that layer's mapped top and mapped bottom
C26_Witness ==
    /\ Queried
    /\ Len(Table) >= 2
    /\ Containing # {}
    /\ FirstContaining = 2
    /\ Table[2].topDepth_m < actual_depth_m
    /\ actual_depth_m < Table[2].bottomDepth_m
    /\ mapped_depth_cm.k = "value"
    /\ Table[2].mapped_top_cm * mapped_depth_cm.f[2] < mapped_depth_cm.f[1]
    /\ mapped_depth_cm.f[1] < Table[2].mapped_bottom_cm * mapped_depth_cm.f[2]

\* C27: in the table built by map_raw_data the layers are in ascending
\* topDepth_m order, the first mappedTop is 0, each mappedBottom is the
\* layer's mappedTop plus its mapped thickness, each later mappedTop is the
\* previous layer's mappedBottom, and the last mappedBottom is the sum of all
\* mapped thicknesses. (stratigraphy.csv holds each of these values rounded
\* to four decimals; the order, the first mappedTop and the chaining of tops
\* to bottoms are checked on the file as well.)
C27_CumulativeTable ==
    (extractor = "StratigraphyExtractor" /\ stratigraphy_csv.exists) =>
        /\ Len(Table) = Len(layers)
        /\ \A i \in 1..Len(layers) :
            /\ FEq(layers[i].mapped_bottom_cm,
                   FAdd(layers[i].mapped_top_cm, layers[i].mapped_thickness_cm))
            /\ i = 1 => layers[i].mapped_top_cm = <<0, 1>> /\ Table[i].mapped_top_cm = 0
            /\ i > 1 =>
                /\ layers[i - 1].topDepth_m <= layers[i].topDepth_m
                /\ Table[i - 1].topDepth_m <= Table[i].topDepth_m
                /\ layers[i].mapped_top_cm = layers[i - 1].mapped_bottom_cm
                /\ Table[i].mapped_top_cm = Table[i - 1].mapped_bottom_cm
        /\ layers # <<>> =>
              FEq(layers[Len(layers)].mapped_bottom_cm, SumMapped(layers))

\* a table of three layers built from a stratigraphy given out of order
C27_Witness ==
    /\ extractor = "StratigraphyExtractor"
    /\ stratigraphy_csv.exists
    /\ Len(layers) = 3
    /\ data[1].topDepth_m.v > data[2].topDepth_m.v
    /\ layers[2].mapped_top_cm = layers[1].mapped_bottom_cm
    /\ FLt(layers[2].mapped_top_cm, layers[3].mapped_top_cm)
    /\ FEq(layers[3].mapped_bottom_cm, SumMapped(layers))

----------------------------------------------------------------------------
(* Properties of the second pass of map_raw_data *)

\* the unrounded direct mapping of a member the raw file holds
DirectOf(f) == DirectMap(deviation_raw.rows[f], Table).f

\* the build-arc equations on mapped values, at the angle of the mapping
MappedKickoffOf(a, v) ==
    FDiv(FSub(FMul(a, MappedSin), FMul(v, MappedTheta)), FSub(MappedSin, MappedTheta))
MappedMeasuredOf(k, v) == FAdd(FMul(FDiv(FSub(v, k), MappedSin), MappedTheta), k)
MappedVerticalOf(k, a) == FAdd(FMul(FDiv(FSub(a, k), MappedTheta), MappedSin), k)

\* the value the equations give a member from the mapped values of the others
FromMapped(f) ==
    CASE f = "kickoffPoint_m" ->
            MappedKickoffOf(DirectOf("targetPointA_m"),
                            DirectOf("targetPointA_verticalDepth_m"))
      [] f = "targetPointA_m" ->
            MappedMeasuredOf(DirectOf("kickoffPoint_m"),
                             DirectOf("targetPointA_verticalDepth_m"))
      [] f = "targetPointA_verticalDepth_m" ->
            MappedVerticalOf(DirectOf("kickoffPoint_m"), DirectOf("targetPointA_m"))

\* the angle lets the equation of the member be applied
Applies(f) ==
    CASE f = "kickoffPoint_m" -> ~FEq(MappedSin, MappedTheta) /\ ~FEq(MappedSin, F(0))
      [] f = "targetPointA_m" -> ~FEq(MappedSin, F(0))
      [] f = "targetPointA_verticalDepth_m" -> ~FEq(MappedTheta, F(0))

DerivedMembers == {f \in TripleFields : ~InRaw(f) /\ Final(f).k = "num"}

\* C28: in map_raw_data a member of {kickoff, targetA, targetA_vertical} that
\* the raw input lacks gets its mapped value from the build-arc equation
\* applied to the mapped values of the other two members; a member the raw
\* input holds keeps its direct calculate_mapped_depth value as its final
\* value; at most one member is derived
C28_MappedSpaceGeometry ==
    MappedFile =>
        /\ \A f \in TripleFields :
            /\ InRaw(f) =>
                /\ Final(f) = Rounded(DirectOf(f))
                /\ Direct(f) = Final(f)
            /\ ~InRaw(f) =>
                /\ Direct(f).k # "num"
                /\ IF (TripleFields \ {f}) \subseteq RawTriple /\ Applies(f)
                   THEN Final(f) = Rounded(FromMapped(f))
                   ELSE Final(f).k # "num"
        /\ Cardinality(DerivedMembers) <= 1

\* a depth above the first layer of the table, as calculate_mapped_depth
\* maps it
MappedAbove(d) == F(Table[1].mapped_top_cm)

\* the kickoff the equation gives in metres
KickoffInMetres ==
    ResolveTriple(deviation_raw.rows, NoKey, MappedAngle).kickoffPoint_m.v

\* the kickoff was derived from the mapped targetA and targetA_vertical; the
\* kickoff solved in metres lies above the table and would be mapped to the
\* first layer's top, while the derived value lies above it
C28_Witness ==
    /\ MappedFile
    /\ DerivedMembers = {"kickoffPoint_m"}
    /\ Final("kickoffPoint_m") = Rounded(FromMapped("kickoffPoint_m"))
    /\ FLt(KickoffInMetres, F(Table[1].topDepth_m))
    /\ Final("kickoffPoint_m") # Rounded(MappedAbove(KickoffInMetres))
    /\ FLt(Final("kickoffPoint_m").v, F(0))

----------------------------------------------------------------------------
(* Properties of the kickoff fallback *)

\* the well type did not send the validator down the straight-well path
Directional == Validated /\ ~IsStraight(well_data)

\* the replacement the record calls for
Replacement ==
    IF Given.REAL_kickoffPoint_m.k # "absent" THEN Given.REAL_kickoffPoint_m
    ELSE IF GivenDepth.k = "num" /\ FLt(F(0), GivenDepth.v) THEN GivenDepth
    ELSE Val(F(0))

\* C29: in validate_deviation_data for a well that is not Straight, a missing
\* kickoffPoint_m (None, '' or 'null') is replaced by REAL_kickoffPoint_m when
\* that key is in the record, otherwise by totalDepth_m when it is > 0,
\* otherwise by 0, and a kickoffPoint_m that is not missing is kept; so the
\* key is in the record when the triple is examined. (Only when the
\* replacement is itself null can the geometry store a number in its place.)
C29_KickoffFallback ==
    Directional =>
        /\ deviation_data.kickoffPoint_m.k # "absent"
        /\ ~IsMissing(Given.kickoffPoint_m) =>
              deviation_data.kickoffPoint_m = Given.kickoffPoint_m
        /\ IsMissing(Given.kickoffPoint_m) =>
              \/ deviation_data.kickoffPoint_m = Replacement
              \/ /\ Replacement.k # "num"
                 /\ deviation_data.kickoffPoint_m.k = "num"

\* a null kickoffPoint_m was replaced by REAL_kickoffPoint_m although the
\* total depth was there as well
C29_Witness ==
    /\ Directional
    /\ Given.kickoffPoint_m.k = "null"
    /\ Given.REAL_kickoffPoint_m = Val(F(5))
    /\ GivenDepth = Val(F(DeepDepth))
    /\ deviation_data.kickoffPoint_m = Val(F(5))

----------------------------------------------------------------------------
(* Properties of the rendering step *)

\* the run has gone through the plot block
Rendered == \E i \in 1..Len(pipeline.log) : pipeline.log[i].step = "plot"

\* C30: StratigraphyPlotter.process lets no exception out, so once the
\* plotter is constructed the run logs the rendering step as successful and
\* ends normally, whether or not a diagram was drawn: the entry of the plot
\* step is the last of the log and is a success, the run is not logged as
\* failed, _save_report has been called and the status is not 1
C30_RenderingNeverFails ==
    InPipeline =>
        /\ \A i \in 1..Len(pipeline.log) : pipeline.log[i] # Logged("plot", FALSE)
        /\ plotter # NoPlotter <=> Rendered
        /\ Rendered =>
              /\ pipeline.log[Len(pipeline.log)] = Logged("plot", TRUE)
              /\ pipeline.pc = "done"
              /\ pipeline.report
              /\ pipeline.exit = 0
        /\ pipeline.pc = "done" => Rendered

\* the plotter failed on a trajectory file that was never written, and the run
\* ended normally with the rendering step logged as a success
C30_Witness ==
    /\ InPipeline
    /\ pipeline.pc = "done"
    /\ plotter.k = "value"
    /\ plotter.stage = "failed"
    /\ plotter.well_type # straight_well
    /\ ~deviation_csv.exists
    /\ pipeline.log[Len(pipeline.log)] = Logged("plot", TRUE)
    /\ pipeline.exit = 0

====
